---- MODULE Spec2Model ----
(***************************************************************************)
(* Resume-to-job matching engine of ai-recruitment-system: the matcher of   *)
(* src/src/utils/supabase/info.tsx and the one of                          *)
(* src/src/utils/ai/nlp-engine.ts, which the applicant pages import.  The  *)
(* two files share preprocessText, extractSkills, calculateCoverageScore   *)
(* and calculateExperienceScore word for word.                             *)
(*                                                                         *)
(* A text is a sequence of one-character strings; a skill name and a token *)
(* are texts too, so toLowerCase, the regular expressions and the word     *)
(* boundary \b are computed character by character as JavaScript does.     *)
(* A score is an IEEE-754 double, computed with the rounding of every      *)
(* operation; years are kept in half years so that 2.5 years is the        *)
(* integer 5.                                                              *)
(***************************************************************************)
EXTENDS Integers, Sequences, FiniteSets, TLC

VARIABLES
    resumeText,        \* argument of calculateMatch: text
    jobDescription,    \* argument of calculateMatch: text
    resumeSkills,      \* argument of calculateMatch: list of skill names
    requiredSkills,    \* argument of calculateMatch: list of skill names
    resumeYearsExp,    \* argument: half years, or UndefinedNumber
    requiredYearsExp,  \* argument: half years, or UndefinedNumber
    resumeWords,       \* arguments of calculateCoverageScore
    jobWords,
    pc,                \* "call" before the function runs, then "returned" or "threw"
    callee,            \* the file whose function ran, "none" before the call
    locals,            \* the local variables of the call when it ended
    result,            \* the value returned
    jobs,              \* JobRecommendations: the jobs fetched, in the order received
    jobMatches,        \* JobRecommendations: the list presented
    calls,             \* the calls of calculateMatch made so far, with what each returned
    lexicon,           \* the array SKILL_DATABASE of the module, as it stands
    resumes,           \* server: the rows of the table resumes
    requests           \* server: the requests being handled, each with the step it is at

vars == <<resumeText, jobDescription, resumeSkills, requiredSkills,
          resumeYearsExp, requiredYearsExp, resumeWords, jobWords,
          pc, callee, locals, result, jobs, jobMatches, calls,
          lexicon, resumes, requests>>

-----------------------------------------------------------------------------
(* Bounds of the model *)

MaxJobWords == 2        \* words in a job description
MaxRequired == 2        \* entries in a declared requiredSkills list
MaxResumeSkills == 2    \* entries in a resumeSkills list
MaxRun == 200           \* longest run of one name in a long required list
MaxHalfYears == 20      \* largest year figure of the experience grid, in half years
MaxTokens == 3          \* tokens in a document handed to calculateCoverageScore
MaxAdded == 2           \* tokens added to a resume document
MaxKeywords == 12       \* distinct words of a long job description
MaxChars == 4           \* characters of a text spelled out over TextChars
MaxWords == 2           \* words of a text written over TextWords
MaxPhrase == 3          \* words of a text handed to extractSkills
MaxJobs == 3            \* jobs in the list matched against one resume
MaxRuns == 2            \* runs of the matching over the same jobs and resume
MaxCalls == 3
MaxLexicon == 3
MaxRequests == 3           \* calls of calculateMatch made one after the other

-----------------------------------------------------------------------------
(* JavaScript values *)

\* undefined / null, one value per static type of the argument
UndefinedText == <<"undefined">>
UndefinedList == <<UndefinedText>>
UndefinedNumber == -1000000

\* years are stored in half years
Years(n) == 2 * n

UpperCase == <<"A","B","C","D","E","F","G","H","I","J","K","L","M",
               "N","O","P","Q","R","S","T","U","V","W","X","Y","Z">>
LowerCase == <<"a","b","c","d","e","f","g","h","i","j","k","l","m",
               "n","o","p","q","r","s","t","u","v","w","x","y","z">>
Digit == {"0","1","2","3","4","5","6","7","8","9"}

Range(s) == {s[i] : i \in DOMAIN s}

\* \w of a JavaScript regular expression without the u flag
WordChars == Range(UpperCase) \cup Range(LowerCase) \cup Digit \cup {"_"}
IsWordChar(c) == c \in WordChars

\* \s restricted to the white space the model's texts contain
IsSpaceChar(c) == c \in {" ", "\t", "\n"}

LowerOf == [c \in Range(UpperCase) |->
               LowerCase[CHOOSE i \in DOMAIN UpperCase : UpperCase[i] = c]]

toLowerCaseChar(c) == IF c \in DOMAIN LowerOf THEN LowerOf[c] ELSE c

\* String.prototype.toLowerCase
toLowerCase(s) == [i \in DOMAIN s |-> toLowerCaseChar(s[i])]

\* Array.prototype.includes
includes(list, x) == \E i \in DOMAIN list : list[i] = x

\* [...new Set(list)]: the distinct elements in order of first occurrence
RECURSIVE SetOrder(_)
SetOrder(list) ==
    IF list = <<>> THEN <<>>
    ELSE LET front == SetOrder(SubSeq(list, 1, Len(list) - 1))
             last == list[Len(list)]
         IN  IF includes(front, last) THEN front ELSE Append(front, last)

-----------------------------------------------------------------------------
(* Natural numbers of any size: the limbs, least significant first, with no
   leading zero limb.  A double's 53-bit significand does not fit the
   model checker's integers. *)

Limb == 32768

RECURSIVE Pow2(_)
Pow2(k) == IF k = 0 THEN 1 ELSE 2 * Pow2(k - 1)

RECURSIVE BigOfInt(_)
BigOfInt(n) == IF n = 0 THEN <<>> ELSE <<n % Limb>> \o BigOfInt(n \div Limb)

RECURSIVE IntOfBig(_)
IntOfBig(a) == IF a = <<>> THEN 0 ELSE a[1] + Limb * IntOfBig(Tail(a))

RECURSIVE BigNorm(_)
BigNorm(a) ==
    IF a = <<>> THEN <<>>
    ELSE IF a[Len(a)] = 0 THEN BigNorm(SubSeq(a, 1, Len(a) - 1))
    ELSE a

RECURSIVE BigCmpFrom(_, _, _)
BigCmpFrom(a, b, i) ==
    IF i = 0 THEN 0
    ELSE IF a[i] < b[i] THEN -1
    ELSE IF a[i] > b[i] THEN 1
    ELSE BigCmpFrom(a, b, i - 1)

\* -1, 0 or 1 as a < b, a = b or a > b
BigCmp(a, b) ==
    IF Len(a) < Len(b) THEN -1
    ELSE IF Len(a) > Len(b) THEN 1
    ELSE BigCmpFrom(a, b, Len(a))

RECURSIVE BigAddC(_, _, _)
BigAddC(a, b, carry) ==
    IF a = <<>> /\ b = <<>> THEN (IF carry = 0 THEN <<>> ELSE <<carry>>)
    ELSE LET x == IF a = <<>> THEN 0 ELSE a[1]
             y == IF b = <<>> THEN 0 ELSE b[1]
             t == x + y + carry
         IN  <<t % Limb>> \o BigAddC(IF a = <<>> THEN <<>> ELSE Tail(a),
                                     IF b = <<>> THEN <<>> ELSE Tail(b), t \div Limb)

BigAdd(a, b) == BigAddC(a, b, 0)

RECURSIVE BigSubB(_, _, _)
BigSubB(a, b, borrow) ==
    IF a = <<>> THEN <<>>
    ELSE LET y == IF b = <<>> THEN 0 ELSE b[1]
             t == a[1] - y - borrow
         IN  <<IF t < 0 THEN t + Limb ELSE t>>
             \o BigSubB(Tail(a), IF b = <<>> THEN <<>> ELSE Tail(b), IF t < 0 THEN 1 ELSE 0)

\* a - b for a >= b
BigSub(a, b) == BigNorm(BigSubB(a, b, 0))

RECURSIVE BigMulSmallC(_, _, _)
BigMulSmallC(a, k, carry) ==
    IF a = <<>> THEN (IF carry = 0 THEN <<>> ELSE <<carry>>)
    ELSE LET t == a[1] * k + carry
         IN  <<t % Limb>> \o BigMulSmallC(Tail(a), k, t \div Limb)

\* a * k for 0 <= k < Limb
BigMulSmall(a, k) == IF k = 0 THEN <<>> ELSE BigMulSmallC(a, k, 0)

RECURSIVE BigMul(_, _)
BigMul(a, b) ==
    IF a = <<>> \/ b = <<>> THEN <<>>
    ELSE LET rest == BigMul(a, Tail(b))
         IN  BigAdd(BigMulSmall(a, b[1]), IF rest = <<>> THEN <<>> ELSE <<0>> \o rest)

\* [q, r] with a = q * k + r for 0 < k < 2 * Limb
RECURSIVE BigDivSmall(_, _)
BigDivSmall(a, k) ==
    IF a = <<>> THEN [q |-> <<>>, r |-> 0]
    ELSE LET high == BigDivSmall(Tail(a), k)
             t == high.r * Limb + a[1]
         IN  [q |-> BigNorm(<<t \div k>> \o high.q), r |-> t % k]

\* a * 2^s
BigShl(a, s) ==
    IF a = <<>> THEN <<>>
    ELSE [i \in 1..(s \div 15) |-> 0] \o BigMulSmall(a, Pow2(s % 15))

\* floor(a / 2^s)
BigShr(a, s) ==
    IF s \div 15 >= Len(a) THEN <<>>
    ELSE BigDivSmall(SubSeq(a, (s \div 15) + 1, Len(a)), Pow2(s % 15)).q

RECURSIVE BitLenInt(_)
BitLenInt(n) == IF n = 0 THEN 0 ELSE 1 + BitLenInt(n \div 2)

\* the number of bits of a
BitLen(a) == IF a = <<>> THEN 0 ELSE 15 * (Len(a) - 1) + BitLenInt(a[Len(a)])

BigIsOdd(a) == a # <<>> /\ a[1] % 2 = 1

-----------------------------------------------------------------------------
(* IEEE-754 doubles >= 0: the value m * 2^e with m of exactly 53 bits, or
   m = 0 and e = 0 for zero.  Every operation rounds to nearest, ties to even,
   as a JavaScript Number does. *)

DZero == [m |-> <<>>, e |-> 0]

\* the result of 0 / 0
NaN == [m |-> <<>>, e |-> 1]

\* whether the quotient q is rounded up: c compares the bits cut off with one
\* half, -1, 0 or 1; a tie goes to the even neighbour
RoundsUp(c, q, inexact) == c > 0 \/ (c = 0 /\ (inexact \/ BigIsOdd(q)))

\* q = floor(n / 2^s), s >= 1, rounded to nearest
RoundedQuotient(n, q, s, inexact) ==
    IF RoundsUp(BigCmp(BigSub(n, BigShl(q, s)), BigShl(<<1>>, s - 1)), q, inexact)
    THEN BigAdd(q, <<1>>)
    ELSE q

\* r of 53 bits, or of 54 after a carry out of the rounding
Renormalized(r, e) ==
    IF BitLen(r) > 53 THEN [m |-> BigShr(r, 1), e |-> e + 1] ELSE [m |-> r, e |-> e]

\* n of len bits
RoundToBits(n, e, inexact, len) ==
    IF len <= 53 THEN [m |-> BigShl(n, 53 - len), e |-> e - (53 - len)]
    ELSE Renormalized(RoundedQuotient(n, BigShr(n, len - 53), len - 53, inexact),
                      e + (len - 53))

\* the double nearest to n * 2^e; inexact says that n was itself cut off
RoundToDouble(n, e, inexact) ==
    IF n = <<>> THEN DZero ELSE RoundToBits(n, e, inexact, BitLen(n))

\* the double nearest to (d.q + d.r / b) * 2^e, for a division result d
RoundDivided(d, e) == RoundToDouble(d.q, e, d.r # 0)

\* a / b for integers 0 <= a, 0 <= b < 2 * Limb
DivInts(a, b) ==
    IF b = 0 THEN NaN
    ELSE RoundDivided(BigDivSmall(BigShl(BigOfInt(a), 75), b), -75)

DOfInt(n) == DivInts(n, 1)

\* the number literals of the source
DOne == DOfInt(1)
D100 == DOfInt(100)
D08 == DivInts(8, 10)
D05 == DivInts(5, 10)
D02 == DivInts(2, 10)

DMul(x, y) ==
    IF x = NaN \/ y = NaN THEN NaN
    ELSE RoundToDouble(BigMul(x.m, y.m), x.e + y.e, FALSE)

\* the smaller exponent of two doubles, zero having none
MinExponent(x, y) ==
    IF x.m = <<>> THEN y.e ELSE IF y.m = <<>> THEN x.e ELSE IF x.e < y.e THEN x.e ELSE y.e

AlignedAt(x, y, e) ==
    [a |-> IF x.m = <<>> THEN <<>> ELSE BigShl(x.m, x.e - e),
     b |-> IF y.m = <<>> THEN <<>> ELSE BigShl(y.m, y.e - e),
     e |-> e]

\* both significands over the smaller exponent
Aligned(x, y) == AlignedAt(x, y, MinExponent(x, y))

AddAligned(al) == RoundToDouble(BigAdd(al.a, al.b), al.e, FALSE)
CmpAligned(al) == BigCmp(al.a, al.b)

DAdd(x, y) == IF x = NaN \/ y = NaN THEN NaN ELSE AddAligned(Aligned(x, y))

\* x < y; false when either is NaN
DLt(x, y) == x # NaN /\ y # NaN /\ CmpAligned(Aligned(x, y)) < 0

\* x >= y; false when either is NaN
DGe(x, y) == x # NaN /\ y # NaN /\ CmpAligned(Aligned(x, y)) >= 0

\* Math.min
DMin(x, y) == IF x = NaN \/ y = NaN THEN NaN ELSE IF DLt(y, x) THEN y ELSE x

\* floor(m / 2^s + 1/2) for q = floor(m / 2^s), s >= 1
RoundHalfUp(m, s, q) ==
    IntOfBig(q) + (IF BigCmp(BigSub(m, BigShl(q, s)), BigShl(<<1>>, s - 1)) >= 0 THEN 1 ELSE 0)

\* Math.round of a double >= 0, as an integer: floor(x + 0.5) computed exactly
MathRound(x) ==
    IF x.m = <<>> THEN 0
    ELSE IF x.e >= 0 THEN IntOfBig(BigShl(x.m, x.e))
    ELSE RoundHalfUp(x.m, -x.e, BigShr(x.m, -x.e))

Round2_None(x) == x

\* Math.round(x * 100) / 100
Round2(x) == DivInts(MathRound(DMul(x, D100)), 100)

-----------------------------------------------------------------------------
(* Exact fractions, for stating what a score ought to be *)

RECURSIVE GCD(_, _)
GCD(a, b) == IF b = 0 THEN a ELSE GCD(b, a % b)

\* n / d in lowest terms (n >= 0, d > 0)
Frac(n, d) == LET g == GCD(n, d) IN [num |-> n \div g, den |-> d \div g]

FracAdd(a, b) == Frac(a.num * b.den + b.num * a.den, a.den * b.den)
FracMul(a, b) == Frac(a.num * b.num, a.den * b.den)

\* the fraction rounded to an integer, halves upwards
HalfUp(x) == (2 * x.num + x.den) \div (2 * x.den)

-----------------------------------------------------------------------------
(* The skill lexicon *)

\* SKILL_DATABASE, in source order, restricted to the entries that can occur
\* in a text over the model's vocabulary; 'Salesforce' is listed twice in the
\* source (Marketing & Sales, Additional Technical Skills).
SKILL_DATABASE == <<
    <<"J","a","v","a","S","c","r","i","p","t">>,
    <<"P","y","t","h","o","n">>,
    <<"J","a","v","a">>,
    <<"C","+","+">>,
    <<"C","#">>,
    <<"C">>,
    <<"R","e","a","c","t">>,
    <<"R","e","a","c","t"," ","N","a","t","i","v","e">>,
    <<"S","Q","L">>,
    <<"A","W","S">>,
    <<"D","o","c","k","e","r">>,
    <<"E","x","c","e","l">>,
    <<"S","a","l","e","s","f","o","r","c","e">>,
    <<"S","a","l","e","s","f","o","r","c","e">> >>

-----------------------------------------------------------------------------
(* preprocessText *)

ReplaceSpecial_KeepAll(s) == s

\* .replace(/[^\w\s.#+]/g, ' ')
ReplaceSpecial(s) ==
    [i \in DOMAIN s |->
        IF IsWordChar(s[i]) \/ IsSpaceChar(s[i]) \/ s[i] \in {".", "#", "+"}
        THEN s[i] ELSE " "]

\* .replace(/\s+/g, ' ')
RECURSIVE CollapseSpaces(_)
CollapseSpaces(s) ==
    IF s = <<>> THEN <<>>
    ELSE IF IsSpaceChar(Head(s))
         THEN IF Len(s) > 1 /\ IsSpaceChar(s[2])
              THEN CollapseSpaces(Tail(s))
              ELSE <<" ">> \o CollapseSpaces(Tail(s))
         ELSE <<Head(s)>> \o CollapseSpaces(Tail(s))

\* String.prototype.trim
RECURSIVE trim(_)
trim(s) ==
    IF s = <<>> THEN <<>>
    ELSE IF IsSpaceChar(Head(s)) THEN trim(Tail(s))
    ELSE IF IsSpaceChar(s[Len(s)]) THEN trim(SubSeq(s, 1, Len(s) - 1))
    ELSE s

\* String.prototype.split with a one-character separator
RECURSIVE split(_, _)
split(s, sep) ==
    IF ~includes(s, sep) THEN <<s>>
    ELSE LET i == CHOOSE k \in DOMAIN s : s[k] = sep /\ \A j \in 1..(k - 1) : s[j] # sep
         IN  <<SubSeq(s, 1, i - 1)>> \o split(SubSeq(s, i + 1, Len(s)), sep)

stopWords == {
    <<"t","h","e">>, <<"a">>, <<"a","n">>, <<"a","n","d">>, <<"o","r">>, <<"b","u","t">>,
    <<"i","n">>, <<"o","n">>, <<"a","t">>, <<"t","o">>, <<"f","o","r">>, <<"o","f">>,
    <<"w","i","t","h">>, <<"b","y">>, <<"f","r","o","m">>, <<"u","p">>, <<"a","b","o","u","t">>,
    <<"i","n","t","o">>, <<"t","h","r","o","u","g","h">>, <<"d","u","r","i","n","g">>, <<"i","s">>,
    <<"a","r","e">>, <<"w","a","s">>, <<"w","e","r","e">>, <<"b","e">>, <<"b","e","e","n">>,
    <<"b","e","i","n","g">>, <<"h","a","v","e">>, <<"h","a","s">>, <<"h","a","d">>, <<"d","o">>,
    <<"d","o","e","s">>, <<"d","i","d">>, <<"w","i","l","l">>, <<"w","o","u","l","d">>,
    <<"c","o","u","l","d">>, <<"s","h","o","u","l","d">>, <<"m","a","y">>, <<"m","i","g","h","t">>,
    <<"m","u","s","t">>, <<"c","a","n">>, <<"i">>, <<"y","o","u">>, <<"h","e">>, <<"s","h","e">>,
    <<"i","t">>, <<"w","e">>, <<"t","h","e","y">>, <<"m","e">>, <<"h","i","m">>, <<"h","e","r">>,
    <<"u","s">>, <<"t","h","e","m">>, <<"m","y">>, <<"y","o","u","r">>, <<"h","i","s">>,
    <<"i","t","s">>, <<"o","u","r">>, <<"t","h","e","i","r">>, <<"t","h","i","s">>,
    <<"t","h","a","t">>, <<"t","h","e","s","e">>, <<"t","h","o","s","e">>, <<"a","m">>,
    <<"a","s">>, <<"t","h","a","n">>, <<"s","o">>, <<"v","e","r","y">>, <<"j","u","s","t">>,
    <<"t","o","o">>, <<"a","l","s","o">>, <<"l","i","k","e">>, <<"u","s","e">>,
    <<"u","s","i","n","g">>, <<"u","s","e","d">>, <<"w","o","r","k">>, <<"w","o","r","k","e","d">>,
    <<"w","o","r","k","i","n","g">>, <<"e","x","p","e","r","i","e","n","c","e">>,
    <<"e","x","p","e","r","i","e","n","c","e","d">>, <<"y","e","a","r">>, <<"y","e","a","r","s">>,
    <<"m","o","n","t","h">>, <<"m","o","n","t","h","s">>, <<"k","n","o","w","l","e","d","g","e">>,
    <<"p","r","o","f","i","c","i","e","n","t">>, <<"p","r","o","f","i","c","i","e","n","c","y">>,
    <<"s","k","i","l","l">>, <<"s","k","i","l","l","s">>, <<"a","b","i","l","i","t","y">>,
    <<"r","e","s","p","o","n","s","i","b","l","e">>,
    <<"r","e","s","p","o","n","s","i","b","i","l","i","t","y">>,
    <<"r","e","s","p","o","n","s","i","b","i","l","i","t","i","e","s">>, <<"r","o","l","e">>,
    <<"t","e","a","m">>, <<"m","e","m","b","e","r">>, <<"p","r","o","j","e","c","t">>,
    <<"p","r","o","j","e","c","t","s">>, <<"a","p","p","l","i","c","a","t","i","o","n">>,
    <<"a","p","p","l","i","c","a","t","i","o","n","s">>, <<"v","a","r","i","o","u","s">>,
    <<"i","n","c","l","u","d","i","n","g">>, <<"e","t","c">>, <<"g","o","o","d">>,
    <<"e","x","c","e","l","l","e","n","t">>, <<"s","t","r","o","n","g">>,
    <<"p","r","o","v","e","n">>, <<"t","r","a","c","k">>, <<"r","e","c","o","r","d">>,
    <<"s","u","c","c","e","s","s","f","u","l">>,
    <<"s","u","c","c","e","s","s","f","u","l","l","y">>,
    <<"d","e","m","o","n","s","t","r","a","t","e","d">>, <<"f","a","m","i","l","i","a","r">>,
    <<"f","a","m","i","l","i","a","r","i","t","y">>
}

preprocessText_StripPlus(text) ==
    IF text = UndefinedText \/ text = <<>> THEN <<>>
    ELSE LET normalized == trim(CollapseSpaces(ReplaceSpecial(toLowerCase(text))))
             words == split(normalized, " ")
             kept == SelectSeq(words, LAMBDA word : Len(word) > 2 /\ word \notin stopWords)
         IN  [i \in DOMAIN kept |-> SelectSeq(kept[i], LAMBDA c : c # "+")]

preprocessText(text) ==
    IF text = UndefinedText \/ text = <<>> THEN <<>>
    ELSE LET normalized == trim(CollapseSpaces(ReplaceSpecial(toLowerCase(text))))
             words == split(normalized, " ")
         IN  SelectSeq(words, LAMBDA word : Len(word) > 2 /\ word \notin stopWords)

-----------------------------------------------------------------------------
(* extractSkills *)

\* \b at the position in front of text[p] (p = Len(text) + 1: the end)
WordBoundary(text, p) ==
    LET isWord(k) == k \in DOMAIN text /\ IsWordChar(text[k])
    IN  isWord(p - 1) # isWord(p)

\* new RegExp(`\\b${escaped skill}\\b`, 'i').test(text): every character of
\* the skill is matched literally once its metacharacters are escaped
RegexTest(normalizedSkill, text) ==
    \E i \in 1..(Len(text) - Len(normalizedSkill) + 1) :
        /\ WordBoundary(text, i)
        /\ SubSeq(text, i, i + Len(normalizedSkill) - 1) = normalizedSkill
        /\ WordBoundary(text, i + Len(normalizedSkill))

\* [...list].sort((a, b) => b.length - a.length): stable, longest first
RECURSIVE SortByLength(_)
SortByLength(list) ==
    IF list = <<>> THEN <<>>
    ELSE LET rest == SortByLength(Tail(list))
             h == Head(list)
             k == Cardinality({i \in DOMAIN rest : Len(rest[i]) > Len(h)})
         IN  SubSeq(rest, 1, k) \o <<h>> \o SubSeq(rest, k + 1, Len(rest))

extractSkills(text) ==
    IF text = UndefinedText \/ text = <<>> THEN <<>>
    ELSE LET normalizedText == toLowerCase(text)
             sortedSkills == SortByLength(SKILL_DATABASE)
             found == SelectSeq(sortedSkills,
                          LAMBDA skill : RegexTest(toLowerCase(skill), normalizedText))
         IN  SetOrder(found)

\* SKILL_DATABASE.sort(...): the array itself is put in order
sortedCopy_InPlace(lex) == [sortedSkills |-> SortByLength(lex), lexicon |-> SortByLength(lex)]

\* [...SKILL_DATABASE].sort(...): the spread makes a new array, and sort puts
\* that one in order; the array spread is left as it was
sortedCopy(lex) == [sortedSkills |-> SortByLength(lex), lexicon |-> lex]

\* a is a part of b
Infix(a, b) == \E i \in 1..(Len(b) - Len(a) + 1) : SubSeq(b, i, i + Len(a) - 1) = a

\* an entry found hides the shorter entries found that are a part of it
extractSkillsOf_LongestWins(lex, text) ==
    IF text = UndefinedText \/ text = <<>> THEN <<>>
    ELSE LET normalizedText == toLowerCase(text)
             sortedSkills == sortedCopy(lex).sortedSkills
             found == SelectSeq(sortedSkills,
                          LAMBDA skill : RegexTest(toLowerCase(skill), normalizedText))
         IN  SetOrder(SelectSeq(found,
                 LAMBDA skill : \A i \in DOMAIN found :
                     Len(found[i]) > Len(skill) => ~Infix(skill, found[i])))

\* extractSkills, were lex the array SKILL_DATABASE
extractSkillsOf(lex, text) ==
    IF text = UndefinedText \/ text = <<>> THEN <<>>
    ELSE LET normalizedText == toLowerCase(text)
             sortedSkills == sortedCopy(lex).sortedSkills
             found == SelectSeq(sortedSkills,
                          LAMBDA skill : RegexTest(toLowerCase(skill), normalizedText))
         IN  SetOrder(found)

\* the array SKILL_DATABASE once extractSkills has returned
lexiconAfterExtractSkills(lex, text) ==
    IF text = UndefinedText \/ text = <<>> THEN lex
    ELSE sortedCopy(lex).lexicon

-----------------------------------------------------------------------------
(* The three sub-scores *)

calculateCoverageScore_ByLength(rWords, jWords) ==
    IF Len(jWords) = 0 THEN DZero
    ELSE LET jobUniqueWords == SetOrder(jWords)
             matchCount == Cardinality({i \in DOMAIN jobUniqueWords :
                                           jobUniqueWords[i] \in Range(rWords)})
         IN  DivInts(matchCount, Len(jWords))

calculateCoverageScore_Jaccard(rWords, jWords) ==
    IF Len(jWords) = 0 THEN DZero
    ELSE LET jobUniqueWords == SetOrder(jWords)
             matchCount == Cardinality({i \in DOMAIN jobUniqueWords :
                                           jobUniqueWords[i] \in Range(rWords)})
         IN  DivInts(matchCount, Cardinality(Range(jWords) \cup Range(rWords)))

calculateCoverageScore(rWords, jWords) ==
    IF Len(jWords) = 0 THEN DZero
    ELSE LET jobUniqueWords == SetOrder(jWords)
             resumeUniqueWords == Range(rWords)
             matchCount == Cardinality({i \in DOMAIN jobUniqueWords :
                                           jobUniqueWords[i] \in resumeUniqueWords})
         IN  DivInts(matchCount, Len(jobUniqueWords))

\* nlp-engine.ts: new Set(jobWords), new Set(resumeWords), and the count of
\* the words of the first that the second has, over the size of the first
nlpEngine_calculateCoverageScore(rWords, jWords) ==
    IF Len(jWords) = 0 THEN DZero
    ELSE LET jobUniqueWords == Range(jWords)
             resumeUniqueWords == Range(rWords)
             matchCount == Cardinality({word \in jobUniqueWords : word \in resumeUniqueWords})
         IN  DivInts(matchCount, Cardinality(jobUniqueWords))

\* what a call returns when it throws instead
TypeError == [threw |-> "TypeError"]

\* nlp-engine.ts: an empty required list is a perfect match, and
\* requiredSkills.length is read with no guard
nlpEngine_calculateSkillMatch(rSkills, reqSkills) ==
    IF reqSkills = UndefinedList THEN TypeError         \* undefined.length
    ELSE IF Len(reqSkills) = 0 THEN DOne
    ELSE IF rSkills = UndefinedList THEN TypeError      \* undefined.map
    ELSE LET normalizedResumeSkills == [i \in DOMAIN rSkills |-> toLowerCase(rSkills[i])]
             normalizedRequiredSkills == [i \in DOMAIN reqSkills |-> toLowerCase(reqSkills[i])]
             matchCount == Cardinality({i \in DOMAIN normalizedRequiredSkills :
                               includes(normalizedResumeSkills, normalizedRequiredSkills[i])})
         IN  DivInts(matchCount, Len(reqSkills))

\* a symmetric score: twice the matches over the sizes of both lists
calculateSkillMatch_Dice(rSkills, reqSkills) ==
    IF reqSkills = UndefinedList \/ Len(reqSkills) = 0 THEN DZero
    ELSE IF rSkills = UndefinedList THEN TypeError
    ELSE LET normalizedResumeSkills == [i \in DOMAIN rSkills |-> toLowerCase(rSkills[i])]
             normalizedRequiredSkills == [i \in DOMAIN reqSkills |-> toLowerCase(reqSkills[i])]
             matchCount == Cardinality({i \in DOMAIN normalizedRequiredSkills :
                               includes(normalizedResumeSkills, normalizedRequiredSkills[i])})
         IN  DivInts(2 * matchCount, Len(reqSkills) + Len(rSkills))

calculateSkillMatch_CaseSensitive(rSkills, reqSkills) ==
    IF reqSkills = UndefinedList \/ Len(reqSkills) = 0 THEN DZero
    ELSE IF rSkills = UndefinedList THEN TypeError
    ELSE DivInts(Cardinality({i \in DOMAIN reqSkills : includes(rSkills, reqSkills[i])}),
              Len(reqSkills))

calculateSkillMatch(rSkills, reqSkills) ==
    IF reqSkills = UndefinedList \/ Len(reqSkills) = 0 THEN DZero
    ELSE IF rSkills = UndefinedList THEN TypeError      \* undefined.map
    ELSE LET normalizedResumeSkills == [i \in DOMAIN rSkills |-> toLowerCase(rSkills[i])]
             normalizedRequiredSkills == [i \in DOMAIN reqSkills |-> toLowerCase(reqSkills[i])]
             matchCount == Cardinality({i \in DOMAIN normalizedRequiredSkills :
                               includes(normalizedResumeSkills, normalizedRequiredSkills[i])})
         IN  DivInts(matchCount, Len(reqSkills))

\* a >= b on numbers: false when either side is undefined (NaN)
GreaterEq(a, b) == a # UndefinedNumber /\ b # UndefinedNumber /\ a >= b

calculateExperienceScore_Strict(resumeYears, requiredYears) ==
    IF requiredYears = UndefinedNumber \/ requiredYears = 0 THEN DOne
    ELSE IF GreaterEq(resumeYears, requiredYears) THEN DOne
    ELSE IF GreaterEq(2 * resumeYears, requiredYears + 1) THEN D08
    ELSE IF GreaterEq(resumeYears, Years(1)) THEN D05
    ELSE D02

calculateExperienceScore(resumeYears, requiredYears) ==
    IF requiredYears = UndefinedNumber \/ requiredYears = 0 THEN DOne
    ELSE IF GreaterEq(resumeYears, requiredYears) THEN DOne
    ELSE IF GreaterEq(2 * resumeYears, requiredYears) THEN D08
    ELSE IF GreaterEq(resumeYears, Years(1)) THEN D05
    ELSE D02

\* the bands before they were relaxed: 0.8 only from 70% of the required years
nlpEngine_calculateExperienceScore_Unrelaxed(resumeYears, requiredYears) ==
    IF requiredYears = UndefinedNumber \/ requiredYears = 0 THEN DOne
    ELSE IF resumeYears = UndefinedNumber THEN D02
    ELSE IF resumeYears >= requiredYears THEN DOne
    ELSE IF 10 * resumeYears >= 7 * requiredYears THEN D08
    ELSE IF resumeYears >= Years(1) THEN D05
    ELSE D02

\* nlp-engine.ts: a comparison with undefined (NaN) is false, so every test
\* on an undefined resumeYears fails
nlpEngine_calculateExperienceScore(resumeYears, requiredYears) ==
    IF requiredYears = UndefinedNumber \/ requiredYears = 0 THEN DOne
    ELSE IF resumeYears = UndefinedNumber THEN D02
    ELSE IF resumeYears >= requiredYears THEN DOne
    ELSE IF 2 * resumeYears >= requiredYears THEN D08
    ELSE IF resumeYears >= Years(1) THEN D05
    ELSE D02

-----------------------------------------------------------------------------
(* generateExplanation: the text as its sequence of sentences, each with the
   numbers it prints, if any *)

Sentence(text, pct) == [text |-> text, pct |-> pct]
Percent(x) == <<MathRound(DMul(x, D100))>>

\* nlp-engine.ts
nlpEngine_generateExplanation(matchScore, skillMatch, matchedSkills, missingSkills, experienceScore, resumeYears, requiredYears) ==
    LET percentage == Percent(matchScore)
        overall == Sentence("Overall match", percentage)
        skill == IF DGe(skillMatch, D08)
                    THEN Sentence("Strong skill match with of required skills",
                                  Percent(skillMatch) \o
                                  <<Len(matchedSkills), Len(matchedSkills) + Len(missingSkills)>>)
                 ELSE IF DGe(skillMatch, D05)
                    THEN Sentence("Good skill match", Percent(skillMatch))
                 ELSE Sentence("Partial skill match", Percent(skillMatch))
        experience == IF DGe(experienceScore, D08)
                         THEN Sentence("Experience requirement met", <<>>)
                      ELSE IF DGe(experienceScore, D05)
                         THEN Sentence("Close to experience requirement", <<>>)
                      ELSE Sentence("Below experience requirement", <<>>)
    IN  <<overall, skill, experience>>

\* the sentence "Overall match" printing the percentage of the skill score
generateExplanation_SkillPercent(matchScore, skillMatch, matchedSkills, missingSkills, experienceScore, resumeYears, requiredYears) ==
    LET percentage == Percent(skillMatch)
        overall == Sentence("Overall match", percentage)
        skill == IF DGe(skillMatch, D08)
                    THEN Sentence("Strong skill match", Percent(skillMatch))
                 ELSE IF DGe(skillMatch, D05)
                    THEN Sentence("Good skill match", Percent(skillMatch))
                 ELSE Sentence("Partial skill match", Percent(skillMatch))
        experience == IF DGe(experienceScore, D08)
                         THEN Sentence("Experience requirement met", <<>>)
                      ELSE IF DLt(DZero, experienceScore)
                         THEN Sentence("Experience considered", <<>>)
                      ELSE Sentence("Experience mismatch or ignored", <<>>)
    IN  <<overall, skill, experience>>

\* info.tsx
generateExplanation(matchScore, skillMatch, matchedSkills, missingSkills, experienceScore, resumeYears, requiredYears) ==
    LET percentage == Percent(matchScore)
        overall == Sentence("Overall match", percentage)
        skill == IF DGe(skillMatch, D08)
                    THEN Sentence("Strong skill match", Percent(skillMatch))
                 ELSE IF DGe(skillMatch, D05)
                    THEN Sentence("Good skill match", Percent(skillMatch))
                 ELSE Sentence("Partial skill match", Percent(skillMatch))
        experience == IF DGe(experienceScore, D08)
                         THEN Sentence("Experience requirement met", <<>>)
                      ELSE IF DLt(DZero, experienceScore)
                         THEN Sentence("Experience considered", <<>>)
                      ELSE Sentence("Experience mismatch or ignored", <<>>)
    IN  <<overall, skill, experience>>

-----------------------------------------------------------------------------------------------------------------------------------------------------
(* calculateMatch *)

skillThreshold == DivInts(20, 100)
scoreCap == DivInts(20, 100)
coverageWeight == DivInts(30, 100)
skillWeight == DivInts(50, 100)
experienceWeight == DivInts(20, 100)

\* let effectiveRequiredSkills = requiredSkills || []; if empty, extractSkills
effectiveRequired(reqSkills, jobText) ==
    LET declared == IF reqSkills = UndefinedList THEN <<>> ELSE reqSkills
    IN  IF Len(declared) = 0 THEN extractSkills(jobText) ELSE declared

\* the entries of the resume that are required, as the resume spells them
matchedSkillsOf_ResumeSpelling(effective, rSkills) ==
    LET normalizedRequiredSkills == [i \in DOMAIN effective |-> toLowerCase(effective[i])]
    IN  SelectSeq(rSkills,
            LAMBDA skill : includes(normalizedRequiredSkills, toLowerCase(skill)))

matchedSkillsOf(effective, rSkills) ==
    LET normalizedResumeSkills == [i \in DOMAIN rSkills |-> toLowerCase(rSkills[i])]
    IN  SelectSeq(effective,
            LAMBDA skill : includes(normalizedResumeSkills, toLowerCase(skill)))

missingSkillsOf(effective, rSkills) ==
    LET normalizedResumeSkills == [i \in DOMAIN rSkills |-> toLowerCase(rSkills[i])]
    IN  SelectSeq(effective,
            LAMBDA skill : ~includes(normalizedResumeSkills, toLowerCase(skill)))

matchedKeywordsOf_ResumeOrder(rWords, jWords) ==
    LET jobSet == Range(jWords)
        resumeSet == SetOrder(rWords)
    IN  SelectSeq(resumeSet, LAMBDA word : word \in jobSet)

\* [...jobSet].filter(word => resumeSet.has(word))
matchedKeywordsOf(rWords, jWords) ==
    LET resumeSet == Range(rWords)
        jobSet == SetOrder(jWords)
    IN  SelectSeq(jobSet, LAMBDA word : word \in resumeSet)

\* Array.prototype.slice(0, n)
slice(list, n) == SubSeq(list, 1, IF Len(list) < n THEN Len(list) ELSE n)

\* the kill switch decided on the skill score rounded to 2 decimals
penaltyAppliedOf_Rounded(effective, skillMatch) ==
    Len(effective) > 0 /\ DLt(Round2(skillMatch), skillThreshold)

\* the kill switch
penaltyAppliedOf(effective, skillMatch) ==
    Len(effective) > 0 /\ DLt(skillMatch, skillThreshold)

weightedScore(coverageScore, skillMatch, experienceScore) ==
    DAdd(DAdd(DMul(coverageScore, coverageWeight),
                    DMul(skillMatch, skillWeight)),
            DMul(experienceScore, experienceWeight))

capScore(matchScore, penaltyApplied) ==
    IF penaltyApplied THEN DMin(matchScore, scoreCap) ELSE matchScore

\* the object returned: return { matchScore: Math.round(matchScore * 100) / 100, ... }
MatchResult(l, matchedSkills, missingSkills, explanation) ==
    [matchScore |-> Round2(l.matchScore),
     textSimilarity |-> Round2(l.coverageScore),
     skillMatch |-> Round2(l.skillMatch),
     experienceScore |-> Round2(l.experienceScore),
     matchedSkills |-> matchedSkills,
     missingSkills |-> missingSkills,
     matchedKeywords |-> slice(matchedKeywordsOf(l.resumeWords, l.jobWords), 10),
     explanation |-> explanation]

\* nlp-engine.ts, the locals up to the weighted score: the required list is
\* used as declared
nlpEngine_subScores(rWords, jWords, rSkills, reqSkills, rYears, reqYears) ==
    [resumeWords |-> rWords,
     jobWords |-> jWords,
     coverageScore |-> calculateCoverageScore(rWords, jWords),
     skillMatch |-> nlpEngine_calculateSkillMatch(rSkills, reqSkills),
     experienceScore |-> calculateExperienceScore(rYears, reqYears)]

\* nlp-engine.ts: the weighted sum is the score, with no cap
nlpEngine_finalScore(l) ==
    [matchScore |-> weightedScore(l.coverageScore, l.skillMatch, l.experienceScore)] @@ l

nlpEngine_result(l, rSkills, reqSkills, rYears, reqYears) ==
    MatchResult(l, matchedSkillsOf(reqSkills, rSkills), missingSkillsOf(reqSkills, rSkills),
                nlpEngine_generateExplanation(l.matchScore, l.skillMatch,
                    matchedSkillsOf(reqSkills, rSkills), missingSkillsOf(reqSkills, rSkills),
                    l.experienceScore, rYears, reqYears))

nlpEngine_returned(l, rSkills, reqSkills, rYears, reqYears) ==
    [threw |-> FALSE, locals |-> l,
     result |-> nlpEngine_result(l, rSkills, reqSkills, rYears, reqYears)]

\* the call in nlp-engine.ts: [threw, locals, result]
nlpEngine_calculateMatch(rText, jText, rSkills, reqSkills, rYears, reqYears) ==
    IF reqSkills = UndefinedList \/ rSkills = UndefinedList
    THEN [threw |-> TRUE, locals |-> <<>>, result |-> <<>>]
    ELSE nlpEngine_returned(
             nlpEngine_finalScore(
                 nlpEngine_subScores(preprocessText(rText), preprocessText(jText),
                                     rSkills, reqSkills, rYears, reqYears)),
             rSkills, reqSkills, rYears, reqYears)

\* info.tsx, the locals up to the kill switch
subScores(rWords, jWords, rSkills, effective, rYears, reqYears) ==
    [resumeWords |-> rWords,
     jobWords |-> jWords,
     effectiveRequiredSkills |-> effective,
     coverageScore |-> calculateCoverageScore(rWords, jWords),
     skillMatch |-> calculateSkillMatch(rSkills, effective),
     experienceScore |-> calculateExperienceScore(rYears, reqYears),
     penaltyApplied |-> FALSE]

\* a kill switch that caps the score and leaves the experience score alone
killSwitch_KeepExperience(l) ==
    IF penaltyAppliedOf(l.effectiveRequiredSkills, l.skillMatch)
    THEN [l EXCEPT !.penaltyApplied = TRUE]
    ELSE l

\* if (effectiveRequiredSkills.length > 0 && skillMatch < skillThreshold)
\*     { penaltyApplied = true; experienceScore = 0; }
killSwitch(l) ==
    IF penaltyAppliedOf(l.effectiveRequiredSkills, l.skillMatch)
    THEN [l EXCEPT !.penaltyApplied = TRUE, !.experienceScore = DZero]
    ELSE l

\* the weighted sum, capped when the penalty was triggered
finalScore(l) ==
    [matchScore |-> capScore(weightedScore(l.coverageScore, l.skillMatch, l.experienceScore),
                             l.penaltyApplied)] @@ l

penaltyNotice_BelowHalf(l) ==
    IF DLt(l.skillMatch, D05)
    THEN <<Sentence("Low skill match", Percent(l.skillMatch)),
           Sentence("Experience ignored due to skill mismatch", <<>>)>>
    ELSE <<>>

\* the notice put before the explanation when the penalty was triggered
penaltyNotice(l) ==
    IF l.penaltyApplied
    THEN <<Sentence("Low skill match", Percent(l.skillMatch)),
           Sentence("Experience ignored due to skill mismatch", <<>>)>>
    ELSE <<>>

resultOf(l, rSkills, rYears, reqYears) ==
    MatchResult(l, matchedSkillsOf(l.effectiveRequiredSkills, rSkills),
                missingSkillsOf(l.effectiveRequiredSkills, rSkills),
                penaltyNotice(l) \o
                generateExplanation(l.matchScore, l.skillMatch,
                    matchedSkillsOf(l.effectiveRequiredSkills, rSkills),
                    missingSkillsOf(l.effectiveRequiredSkills, rSkills),
                    l.experienceScore, rYears, reqYears))

returned(l, rSkills, rYears, reqYears) ==
    [threw |-> FALSE, locals |-> l, result |-> resultOf(l, rSkills, rYears, reqYears)]

\* a call that answers from the call before it when the resume text is the same
calculateMatch_Cached(rText, jText, rSkills, reqSkills, rYears, reqYears) ==
    IF calls # <<>> /\ ~calls[Len(calls)].threw /\ calls[Len(calls)].args[1] = rText
    THEN [threw |-> FALSE, locals |-> locals, result |-> calls[Len(calls)].result]
    ELSE IF rSkills = UndefinedList
    THEN [threw |-> TRUE, locals |-> <<>>, result |-> <<>>]
    ELSE returned(
             finalScore(killSwitch(
                 subScores(preprocessText(rText), preprocessText(jText), rSkills,
                           effectiveRequired(reqSkills, jText), rYears, reqYears))),
             rSkills, rYears, reqYears)

\* the call in info.tsx: [threw, locals, result]
calculateMatch(rText, jText, rSkills, reqSkills, rYears, reqYears) ==
    IF rSkills = UndefinedList      \* calculateSkillMatch or resumeSkills.map throws
    THEN [threw |-> TRUE, locals |-> <<>>, result |-> <<>>]
    ELSE returned(
             finalScore(killSwitch(
                 subScores(preprocessText(rText), preprocessText(jText), rSkills,
                           effectiveRequired(reqSkills, jText), rYears, reqYears))),
             rSkills, rYears, reqYears)

-----
(* The inputs of the model *)

\* skill names as callers spell them
Python == <<"P","y","t","h","o","n">>
python == <<"p","y","t","h","o","n">>
SQL == <<"S","Q","L">>
AWS == <<"A","W","S">>
Docker == <<"D","o","c","k","e","r">>
Excel == <<"E","x","c","e","l">>
React == <<"R","e","a","c","t">>

\* words of a job description
JobVocab == {Python, <<"S","Q","L",",">>, <<"t","e","a","m">>, React, <<"N","a","t","i","v","e">>}

\* words joined by single blanks
RECURSIVE Join(_)
Join(words) ==
    IF words = <<>> THEN <<>>
    ELSE IF Len(words) = 1 THEN words[1]
    ELSE words[1] \o <<" ">> \o Join(Tail(words))

\* the sequences over S of length at most n
SeqUpTo(S, n) == UNION {[1..k -> S] : k \in 0..n}

\* n copies of x
Run(x, n) == [i \in 1..n |-> x]

JobDescriptions == {Join(ws) : ws \in SeqUpTo(JobVocab, MaxJobWords)}

ResumeTexts == {
    <<>>,
    <<"p","y","t","h","o","n"," ","s","q","l">>,
    <<"5"," ","y","e","a","r","s"," ","e","x","p","e","r","i","e","n","c","e"," ","i","n"," ","P","y","t","h","o","n"," ","a","n","d"," ","R","e","a","c","t">> }

\* words of a long job description: none is a stop word or a skill name
KeywordWords == <<
    <<"b","u","i","l","d">>, <<"s","h","i","p">>, <<"t","e","s","t">>,
    <<"p","l","a","n">>, <<"l","e","a","d">>, <<"c","o","d","e">>,
    <<"t","o","o","l","s">>, <<"c","l","o","u","d">>, <<"d","a","t","a">>,
    <<"w","e","b">>, <<"a","p","i">>, <<"o","p","s">>,
    <<"d","e","v">> >>

Reverse(list) == [i \in 1..Len(list) |-> list[Len(list) + 1 - i]]

\* the first n elements, or all of them
Prefix(list, n) == SubSeq(list, 1, IF n < Len(list) THEN n ELSE Len(list))

RequiredLists == SeqUpTo({Python, SQL, AWS}, MaxRequired)
ResumeSkillLists == SeqUpTo({python, Excel}, MaxResumeSkills)

\* <<resumeYearsExp, requiredYearsExp>>
YearPairs == {<<Years(5), Years(3)>>, <<Years(0), Years(10)>>, <<Years(1), Years(0)>>,
              <<Years(2), Years(3)>>, <<Years(1), Years(10)>>}

ArgNames == {"resumeText", "jobDescription", "resumeSkills", "requiredSkills",
             "resumeYearsExp", "requiredYearsExp"}

-----------------------------------------------------------------------------
(* calculateMatch as a state machine: one call per behaviour *)

NoCall ==
    /\ pc = "call"
    /\ callee = "none"
    /\ locals = <<>>
    /\ result = <<>>
    /\ jobs = <<>>
    /\ jobMatches = <<>>
    /\ calls = <<>>
    /\ lexicon = SKILL_DATABASE
    /\ resumes = {}
    /\ requests = {}

\* every declared and resume skill list, over two job descriptions
InitSkills ==
    /\ resumeText \in {<<"p","y","t","h","o","n"," ","s","q","l">>}
    /\ jobDescription \in {<<>>, <<"P","y","t","h","o","n",","," ","R","e","a","c","t"," ","a","n","d"," ","S","Q","L">>}
    /\ resumeSkills \in ResumeSkillLists
    /\ requiredSkills \in RequiredLists
    /\ \E y \in YearPairs : resumeYearsExp = y[1] /\ requiredYearsExp = y[2]

\* every job description, over a few skill lists
InitTexts ==
    /\ resumeText \in ResumeTexts
    /\ jobDescription \in JobDescriptions
    /\ resumeSkills \in {<<python>>, <<python, React>>}
    /\ requiredSkills \in {<<>>, <<SQL>>}
    /\ resumeYearsExp = Years(5) /\ requiredYearsExp = Years(3)

\* long declared lists: a copies of one name, then b copies of another
InitRuns ==
    /\ resumeText = <<>>
    /\ jobDescription = <<>>
    /\ resumeSkills = <<python>>
    /\ \E a \in 0..MaxRun, b \in {0, 1, 4, 41} : requiredSkills = Run(Python, a) \o Run(SQL, b)
    /\ resumeYearsExp = Years(15) /\ requiredYearsExp = Years(2)

\* the scenarios of the specification
InitScenarios ==
    \/ /\ resumeText = <<>>
       /\ jobDescription = <<>>
       /\ resumeSkills = <<Excel>>
       /\ requiredSkills = <<Python, AWS, Docker>>
       /\ resumeYearsExp = Years(15) /\ requiredYearsExp = Years(2)
    \/ /\ resumeText = <<"5"," ","y","e","a","r","s"," ","e","x","p","e","r","i","e","n","c","e"," ","i","n"," ","P","y","t","h","o","n"," ","a","n","d"," ","R","e","a","c","t">>
       /\ jobDescription = <<"P","y","t","h","o","n",","," ","R","e","a","c","t"," ","a","n","d"," ","S","Q","L">>
       /\ resumeSkills = <<Python, React>>
       /\ requiredSkills = <<Python, React, SQL>>
       /\ resumeYearsExp = Years(5) /\ requiredYearsExp = Years(3)
    \/ /\ resumeText = <<>>
       /\ jobDescription = <<>>
       /\ resumeSkills = <<Python, React, SQL>>
       /\ requiredSkills = <<Python, React, SQL, AWS>>
       /\ resumeYearsExp = Years(5) /\ requiredYearsExp = Years(3)

\* long documents: the job names the first n words and repeats the first m,
\* the resume names the words from the k-th on, last word first
InitKeywords ==
    /\ \E n \in 0..MaxKeywords, m \in {0, 2} :
           jobDescription = Join(Prefix(KeywordWords, n) \o Prefix(KeywordWords, m))
    /\ \E k \in {1, 2, 4} :
           resumeText = Join(<<python>> \o Reverse(SubSeq(KeywordWords, k, Len(KeywordWords))))
    /\ resumeSkills = <<python>>
    /\ requiredSkills = <<Python>>
    /\ resumeYearsExp = Years(5) /\ requiredYearsExp = Years(3)

\* calls in which some arguments are undefined
InitAbsent ==
    \E absent \in SUBSET ArgNames :
        /\ resumeText = IF "resumeText" \in absent THEN UndefinedText ELSE <<"p","y","t","h","o","n"," ","s","q","l">>
        /\ jobDescription = IF "jobDescription" \in absent THEN UndefinedText ELSE <<"P","y","t","h","o","n",","," ","R","e","a","c","t"," ","a","n","d"," ","S","Q","L">>
        /\ resumeSkills = IF "resumeSkills" \in absent THEN UndefinedList ELSE <<python>>
        /\ requiredSkills \in IF "requiredSkills" \in absent THEN {UndefinedList} ELSE {<<>>, <<Python, SQL>>}
        /\ resumeYearsExp = IF "resumeYearsExp" \in absent THEN UndefinedNumber ELSE Years(5)
        /\ requiredYearsExp \in IF "requiredYearsExp" \in absent THEN {UndefinedNumber} ELSE {0, Years(3)}

Init ==
    /\ NoCall
    /\ resumeWords = <<>>
    /\ jobWords = <<>>
    /\ InitSkills \/ InitTexts \/ InitRuns \/ InitScenarios \/ InitAbsent \/ InitKeywords

CalculateMatch ==
    /\ pc = "call"
    /\ \E out \in {calculateMatch(resumeText, jobDescription, resumeSkills,
                                   requiredSkills, resumeYearsExp, requiredYearsExp)} :
           /\ pc' = IF out.threw THEN "threw" ELSE "returned"
           /\ locals' = out.locals
           /\ result' = out.result
    /\ callee' = "info.tsx"
    /\ UNCHANGED <<resumeText, jobDescription, resumeSkills, requiredSkills,
                   resumeYearsExp, requiredYearsExp, resumeWords, jobWords,
                   jobs, jobMatches, calls,
                   lexicon, resumes, requests>>

\* the call the applicant pages make
NlpEngineCalculateMatch ==
    /\ pc = "call"
    /\ \E out \in {nlpEngine_calculateMatch(resumeText, jobDescription, resumeSkills,
                                            requiredSkills, resumeYearsExp, requiredYearsExp)} :
           /\ pc' = IF out.threw THEN "threw" ELSE "returned"
           /\ locals' = out.locals
           /\ result' = out.result
    /\ callee' = "nlp-engine.ts"
    /\ UNCHANGED <<resumeText, jobDescription, resumeSkills, requiredSkills,
                   resumeYearsExp, requiredYearsExp, resumeWords, jobWords,
                   jobs, jobMatches, calls,
                   lexicon, resumes, requests>>

Next == CalculateMatch \/ NlpEngineCalculateMatch

Spec == Init /\ [][Next]_vars

-----------------------------------------------------------------------------
(* calculateExperienceScore on its own *)

InitExperience ==
    /\ NoCall
    /\ resumeText = <<>>
    /\ jobDescription = <<>>
    /\ resumeSkills = <<>>
    /\ requiredSkills = <<>>
    /\ resumeWords = <<>>
    /\ jobWords = <<>>
    /\ resumeYearsExp \in 0..MaxHalfYears
    /\ requiredYearsExp \in (-2)..MaxHalfYears

CalculateExperienceScore ==
    /\ pc = "call"
    /\ pc' = "returned"
    /\ callee' = "info.tsx"
    /\ result' = calculateExperienceScore(resumeYearsExp, requiredYearsExp)
    /\ UNCHANGED <<resumeText, jobDescription, resumeSkills, requiredSkills,
                   resumeYearsExp, requiredYearsExp, resumeWords, jobWords, locals,
                   jobs, jobMatches, calls,
                   lexicon, resumes, requests>>

NextExperience == CalculateExperienceScore

SpecExperience == InitExperience /\ [][NextExperience]_vars

-----------------------------------------------------------------------------
(* calculateCoverageScore on its own *)

Tokens == {python, <<"s","q","l">>, <<"r","e","a","c","t">>}

InitCoverage ==
    /\ NoCall
    /\ resumeText = <<>>
    /\ jobDescription = <<>>
    /\ resumeSkills = <<>>
    /\ requiredSkills = <<>>
    /\ resumeYearsExp = 0
    /\ requiredYearsExp = 0
    /\ resumeWords \in SeqUpTo(Tokens, MaxTokens)
    /\ jobWords \in SeqUpTo(Tokens, MaxTokens)

CalculateCoverageScore ==
    /\ pc = "call"
    /\ pc' = "returned"
    /\ callee' = "info.tsx"
    /\ result' = calculateCoverageScore(resumeWords, jobWords)
    /\ UNCHANGED <<resumeText, jobDescription, resumeSkills, requiredSkills,
                   resumeYearsExp, requiredYearsExp, resumeWords, jobWords, locals,
                   jobs, jobMatches, calls,
                   lexicon, resumes, requests>>

NextCoverage == CalculateCoverageScore

SpecCoverage == InitCoverage /\ [][NextCoverage]_vars

-----------------------------------------------------------------------------
(* preprocessText on its own, and then once more on its own output joined by
   single blanks *)

TextChars == {"A", "n", "d", " ", ",", "+"}
TextWords == {<<"T","h","e">>, <<"C","+","+">>, <<"C","#">>, <<".","N","E","T">>, <<"V","u","e",".","j","s">>, <<"a","b">>, <<"T","e","a","m">>, <<"R","&","D">>, <<"e","-","m","a","i","l">>, <<"t","o","_","d","o">>, <<"P","y","t","h","o","n","3">>}
Separators == {<<" ">>, <<","," ">>, <<"\t","\n">>, <<" ","-"," ">>}

\* words with a separator between each two
RECURSIVE Written(_, _)
Written(words, seps) ==
    IF words = <<>> THEN <<>>
    ELSE IF Len(words) = 1 THEN words[1]
    ELSE words[1] \o seps[1] \o Written(Tail(words), Tail(seps))

Texts ==
    {UndefinedText}
    \cup SeqUpTo(TextChars, MaxChars)
    \cup {Written(ws, seps) : ws \in [1..MaxWords -> TextWords], seps \in [1..MaxWords -> Separators]}
    \cup {<<" ">> \o w \o <<" ", " ">> : w \in TextWords}

InitPreprocess ==
    /\ NoCall
    /\ resumeText \in Texts
    /\ jobDescription = <<>>
    /\ resumeSkills = <<>>
    /\ requiredSkills = <<>>
    /\ resumeYearsExp = 0
    /\ requiredYearsExp = 0
    /\ resumeWords = <<>>
    /\ jobWords = <<>>

PreprocessText ==
    /\ pc = "call"
    /\ pc' = "returned"
    /\ \E file \in {"info.tsx", "nlp-engine.ts"} : callee' = file
    /\ result' = preprocessText(resumeText)
    /\ UNCHANGED <<resumeText, jobDescription, resumeSkills, requiredSkills,
                   resumeYearsExp, requiredYearsExp, resumeWords, jobWords, locals,
                   jobs, jobMatches, calls,
                   lexicon, resumes, requests>>

\* the tokens returned, joined by single blanks, are the text of a second
\* call; locals keeps the first text and what the first call returned
PreprocessTextAgain ==
    /\ pc = "returned"
    /\ pc' = "returned again"
    /\ locals' = [text |-> resumeText, first |-> result]
    /\ resumeText' = Join(result)
    /\ result' = preprocessText(resumeText')
    /\ UNCHANGED <<jobDescription, resumeSkills, requiredSkills,
                   resumeYearsExp, requiredYearsExp, resumeWords, jobWords, callee,
                   jobs, jobMatches, calls,
                   lexicon, resumes, requests>>

NextPreprocess == PreprocessText \/ PreprocessTextAgain

SpecPreprocess == InitPreprocess /\ [][NextPreprocess]_vars

-----------------------------------------------------------------------------
(* extractSkills on its own: the text is the job description *)

SkillWords == {
    <<"C","+","+">>, <<"C","#">>, <<"C">>, <<"c","+","+","1","1">>, <<"R","e","a","c","t">>, <<"N","a","t","i","v","e">>,
    <<"d","e","v","e","l","o","p","e","r">>, <<"J","a","v","a","S","c","r","i","p","t">>, <<"J","a","v","a">>, <<"S","a","l","e","s","f","o","r","c","e">>, <<"r","e","a","c","t","i","v","e">> }

InitExtract ==
    /\ NoCall
    /\ resumeText = <<>>
    /\ jobDescription \in {UndefinedText} \cup {Join(ws) : ws \in SeqUpTo(SkillWords, MaxPhrase)}
    /\ resumeSkills = <<>>
    /\ requiredSkills = <<>>
    /\ resumeYearsExp = 0
    /\ requiredYearsExp = 0
    /\ resumeWords = <<>>
    /\ jobWords = <<>>

ExtractSkills ==
    /\ pc = "call"
    /\ pc' = "returned"
    /\ \E file \in {"info.tsx", "nlp-engine.ts"} : callee' = file
    /\ result' = extractSkills(jobDescription)
    /\ UNCHANGED <<resumeText, jobDescription, resumeSkills, requiredSkills,
                   resumeYearsExp, requiredYearsExp, resumeWords, jobWords, locals,
                   jobs, jobMatches, calls,
                   lexicon, resumes, requests>>

NextExtract == ExtractSkills

SpecExtract == InitExtract /\ [][NextExtract]_vars

-----------------------------------------------------------------------------
(* JobRecommendations: one resume matched against the list of jobs.  The
   resume is resumeText, resumeSkills, resumeYearsExp; the component imports
   calculateMatch from nlp-engine.ts. *)

\* x || [] and x || 0
OrEmpty(list) == IF list = UndefinedList THEN <<>> ELSE list
OrZero(n) == IF n = UndefinedNumber THEN 0 ELSE n

\* what a job says, without its id
JobKinds == {
    [description |-> <<"P","y","t","h","o","n",","," ","R","e","a","c","t"," ","a","n","d"," ","S","Q","L">>,
     requiredSkills |-> <<Python>>, requiredYearsExp |-> Years(3)],
    [description |-> <<>>, requiredSkills |-> <<>>, requiredYearsExp |-> 0],
    [description |-> <<>>, requiredSkills |-> <<Python>>, requiredYearsExp |-> 0],
    [description |-> <<>>, requiredSkills |-> <<AWS>>, requiredYearsExp |-> Years(10)] }

\* the jobs as fetched: the id is the place in the list received
JobLists ==
    UNION {{[i \in 1..n |-> [id |-> i] @@ kind[i]] : kind \in [1..n -> JobKinds]} : n \in 0..MaxJobs}

\* jobsToMatch.map(job => calculateMatch(...)): what each call gave, in the
\* order of the jobs; runMatchingAlgorithm passes yearsOfExperience || 0 and
\* job.requiredYearsExp || 0, handleResumeUpload passes both as they are
callsOfRun(js, rText, rSkills, rYears) ==
    [i \in DOMAIN js |->
        nlpEngine_calculateMatch(rText, js[i].description, rSkills,
            OrEmpty(js[i].requiredSkills), OrZero(rYears), OrZero(js[i].requiredYearsExp))]

callsOfUpload(js, rText, rSkills, rYears) ==
    [i \in DOMAIN js |->
        nlpEngine_calculateMatch(rText, js[i].description, rSkills,
            OrEmpty(js[i].requiredSkills), rYears, js[i].requiredYearsExp)]

\* { ...job, ...matchResult }
matchesOf(js, outs) == [i \in DOMAIN js |-> outs[i].result @@ js[i]]

\* { ...job, ...matchResult, resumePath }
matchesWithPath(js, outs) ==
    [i \in DOMAIN js |-> [resumePath |-> "path"] @@ outs[i].result @@ js[i]]

RECURSIVE sort_TiesReversed(_)
sort_TiesReversed(list) ==
    IF list = <<>> THEN <<>>
    ELSE LET rest == sort_TiesReversed(Tail(list))
             h == Head(list)
             k == Cardinality({i \in DOMAIN rest : ~DLt(rest[i].matchScore, h.matchScore)})
         IN  SubSeq(rest, 1, k) \o <<h>> \o SubSeq(rest, k + 1, Len(rest))

\* .sort((a, b) => b.matchScore - a.matchScore): Array.prototype.sort is
\* stable, and the difference is positive exactly when a scores less than b
RECURSIVE sort(_)
sort(list) ==
    IF list = <<>> THEN <<>>
    ELSE LET rest == sort(Tail(list))
             h == Head(list)
             k == Cardinality({i \in DOMAIN rest : DLt(h.matchScore, rest[i].matchScore)})
         IN  SubSeq(rest, 1, k) \o <<h>> \o SubSeq(rest, k + 1, Len(rest))

InitBatch ==
    /\ pc = "call"
    /\ callee = "none"
    /\ locals = [runs |-> 0, previous |-> <<>>]
    /\ result = <<>>
    /\ calls = <<>>
    /\ lexicon = SKILL_DATABASE
    /\ resumes = {}
    /\ requests = {}
    /\ jobMatches = <<>>
    /\ jobs \in JobLists
    /\ resumeText = <<"p","y","t","h","o","n"," ","s","q","l">>
    /\ resumeSkills \in {<<python>>, UndefinedList}
    /\ resumeYearsExp \in {Years(5), UndefinedNumber}
    /\ jobDescription = <<>>
    /\ requiredSkills = <<>>
    /\ requiredYearsExp = 0
    /\ resumeWords = <<>>
    /\ jobWords = <<>>

\* a run ends by a throw out of calculateMatch, which leaves the list
\* presented as it was, or by setJobMatches
EndOfRun(threw, matches) ==
    /\ pc' = IF threw THEN "threw" ELSE "returned"
    /\ jobMatches' = IF threw THEN jobMatches ELSE matches
    /\ locals' = [runs |-> locals.runs + 1, previous |-> jobMatches]
    /\ callee' = "nlp-engine.ts"
    /\ UNCHANGED <<resumeText, jobDescription, resumeSkills, requiredSkills,
                   resumeYearsExp, requiredYearsExp, resumeWords, jobWords,
                   result, jobs, calls,
                   lexicon, resumes, requests>>

RunMatchingAlgorithm ==
    /\ locals.runs < MaxRuns
    /\ \E outs \in {callsOfRun(jobs, resumeText, resumeSkills, resumeYearsExp)} :
           \E threw \in {\E i \in DOMAIN outs : outs[i].threw} :
               EndOfRun(threw, IF threw THEN <<>> ELSE sort(matchesOf(jobs, outs)))

HandleResumeUpload ==
    /\ locals.runs < MaxRuns
    /\ \E outs \in {callsOfUpload(jobs, resumeText, resumeSkills, resumeYearsExp)} :
           \E threw \in {\E i \in DOMAIN outs : outs[i].threw} :
               EndOfRun(threw, IF threw THEN <<>> ELSE sort(matchesWithPath(jobs, outs)))

NextBatch == RunMatchingAlgorithm \/ HandleResumeUpload

SpecBatch == InitBatch /\ [][NextBatch]_vars

-----------------------------------------------------------------------------
(* calculateMatch of info.tsx called several times, one call after the other;
   calls records the arguments of each call and what it gave.  The module has
   no variable of its own besides the constant SKILL_DATABASE, which no code
   writes, so a call starts from its arguments only. *)

\* <<resumeText, jobDescription, resumeSkills, requiredSkills, resumeYearsExp, requiredYearsExp>>
ArgumentLists == {
    <<<<"p","y","t","h","o","n"," ","s","q","l">>,
      <<"P","y","t","h","o","n",","," ","R","e","a","c","t"," ","a","n","d"," ","S","Q","L">>,
      <<python>>, <<>>, Years(5), Years(3)>>,
    <<<<"p","y","t","h","o","n"," ","s","q","l">>,
      <<"P","y","t","h","o","n",","," ","R","e","a","c","t"," ","a","n","d"," ","S","Q","L">>,
      <<python>>, <<Python, SQL>>, Years(5), Years(3)>>,
    <<<<"p","y","t","h","o","n"," ","s","q","l">>, <<>>, <<Excel>>, <<Python, AWS, Docker>>,
      Years(15), Years(2)>>,
    <<<<>>, <<"P","y","t","h","o","n",","," ","R","e","a","c","t"," ","a","n","d"," ","S","Q","L">>,
      <<python>>, <<>>, Years(0), Years(10)>>,
    <<<<"p","y","t","h","o","n"," ","s","q","l">>, UndefinedText, UndefinedList, <<Python>>,
      Years(5), UndefinedNumber>> }

Arguments(args) ==
    /\ resumeText = args[1]
    /\ jobDescription = args[2]
    /\ resumeSkills = args[3]
    /\ requiredSkills = args[4]
    /\ resumeYearsExp = args[5]
    /\ requiredYearsExp = args[6]

InitCalls ==
    /\ NoCall
    /\ resumeWords = <<>>
    /\ jobWords = <<>>
    /\ \E args \in ArgumentLists : Arguments(args)

\* one call, entered in calls
CalculateMatchRecorded ==
    /\ pc = "call"
    /\ \E out \in {calculateMatch(resumeText, jobDescription, resumeSkills,
                                   requiredSkills, resumeYearsExp, requiredYearsExp)} :
           /\ pc' = IF out.threw THEN "threw" ELSE "returned"
           /\ locals' = out.locals
           /\ result' = out.result
           /\ calls' = Append(calls,
                  [args |-> <<resumeText, jobDescription, resumeSkills,
                              requiredSkills, resumeYearsExp, requiredYearsExp>>,
                   threw |-> out.threw,
                   result |-> out.result])
    /\ callee' = "info.tsx"
    /\ UNCHANGED <<resumeText, jobDescription, resumeSkills, requiredSkills,
                   resumeYearsExp, requiredYearsExp, resumeWords, jobWords,
                   jobs, jobMatches,
                   lexicon, resumes, requests>>

\* the caller makes ready the next call; what the last call left stays
NextArguments ==
    /\ pc \in {"returned", "threw"}
    /\ Len(calls) < MaxCalls
    /\ pc' = "call"
    /\ \E args \in ArgumentLists :
           /\ resumeText' = args[1]
           /\ jobDescription' = args[2]
           /\ resumeSkills' = args[3]
           /\ requiredSkills' = args[4]
           /\ resumeYearsExp' = args[5]
           /\ requiredYearsExp' = args[6]
    /\ UNCHANGED <<resumeWords, jobWords, callee, locals, result,
                   jobs, jobMatches, calls,
                   lexicon, resumes, requests>>

NextCalls == CalculateMatchRecorded \/ NextArguments

SpecCalls == InitCalls /\ [][NextCalls]_vars

-----------------------------------------------------------------------------
(* calculateCoverageScore called a second time, for the same job document and
   a resume document that has gained tokens *)

AddedTokens == {python, <<"e","x","c","e","l">>}

InitAsymmetry ==
    /\ NoCall
    /\ resumeText = <<>>
    /\ jobDescription = <<>>
    /\ resumeSkills = <<>>
    /\ requiredSkills = <<>>
    /\ resumeYearsExp = 0
    /\ requiredYearsExp = 0
    /\ resumeWords \in SeqUpTo(Tokens, MaxAdded)
    /\ jobWords \in SeqUpTo(Tokens, MaxTokens)

\* the second call: locals keeps the first score and the tokens added
CalculateCoverageScoreOfLonger ==
    /\ pc = "returned"
    /\ \E added \in SeqUpTo(AddedTokens, MaxAdded) \ {<<>>}, k \in 0..Len(resumeWords) :
           /\ resumeWords' = SubSeq(resumeWords, 1, k) \o added
                                 \o SubSeq(resumeWords, k + 1, Len(resumeWords))
           /\ locals' = [before |-> result, added |-> added]
    /\ result' = calculateCoverageScore(resumeWords', jobWords)
    /\ pc' = "returned again"
    /\ UNCHANGED <<resumeText, jobDescription, resumeSkills, requiredSkills,
                   resumeYearsExp, requiredYearsExp, jobWords, callee,
                   jobs, jobMatches, calls,
                   lexicon, resumes, requests>>

NextAsymmetry == CalculateCoverageScore \/ CalculateCoverageScoreOfLonger

SpecAsymmetry == InitAsymmetry /\ [][NextAsymmetry]_vars

-----------------------------------------------------------------------------
(* What the claims speak of, stated from the arguments of the call *)

Declared == IF requiredSkills = UndefinedList THEN <<>> ELSE requiredSkills
Effective == IF Declared = <<>> THEN extractSkills(jobDescription) ELSE Declared
InResume(skill) ==
    \E i \in DOMAIN resumeSkills : toLowerCase(resumeSkills[i]) = toLowerCase(skill)
PresentCount == Cardinality({i \in DOMAIN Effective : InResume(Effective[i])})
AllPresent == \A i \in DOMAIN Effective : InResume(Effective[i])
Fires == Effective # <<>> /\ 5 * PresentCount < Len(Effective)

Returned == pc = "returned"
\* the call took the override branch (nlp-engine.ts has none)
OverrideApplied == callee = "info.tsx" /\ locals.penaltyApplied

ExactSkill == IF Effective = <<>> THEN Frac(0, 1) ELSE Frac(PresentCount, Len(Effective))
\* the skill score of the call as a fraction: nlp-engine.ts scores an empty
\* declared list 1
ExactSkillOfCall ==
    IF callee = "nlp-engine.ts" /\ Declared = <<>> THEN Frac(1, 1) ELSE ExactSkill
ExactCoverage ==
    LET J == Range(preprocessText(jobDescription))
        R == Range(preprocessText(resumeText))
    IN  IF J = {} THEN Frac(0, 1) ELSE Frac(Cardinality(J \cap R), Cardinality(J))
ExactExperience ==
    IF requiredYearsExp = UndefinedNumber \/ requiredYearsExp <= 0 THEN Frac(1, 1)
    ELSE IF resumeYearsExp = UndefinedNumber THEN Frac(2, 10)
    ELSE IF resumeYearsExp >= requiredYearsExp THEN Frac(1, 1)
    ELSE IF 2 * resumeYearsExp >= requiredYearsExp THEN Frac(8, 10)
    ELSE IF resumeYearsExp >= Years(1) THEN Frac(5, 10)
    ELSE Frac(2, 10)
ExactComposite ==
    FracAdd(FracAdd(FracMul(Frac(30, 100), ExactCoverage),
                    FracMul(Frac(50, 100), ExactSkillOfCall)),
            FracMul(Frac(20, 100), ExactExperience))

\* the double of a fraction
DOfFrac(x) == DivInts(x.num, x.den)
\* the scores k / 100 for a whole k in 0..100
Hundredths == {DivInts(k, 100) : k \in 0..100}
IsHundredth(x) == x \in Hundredths

-----------------------------------------------------------------------------
(* C1: matchedSkills and missingSkills partition the effective required-skill
   set: together they hold exactly its skills, and no skill is in both.
   Holds of info.tsx; nlp-engine.ts, which never extracts the set from the
   job description, returns two empty lists for a non-empty effective set.  *)
C1_Partition ==
    Returned =>
        /\ Range(result.matchedSkills) \cup Range(result.missingSkills) = Range(Effective)
        /\ Range(result.matchedSkills) \cap Range(result.missingSkills) = {}
        /\ Len(result.matchedSkills) + Len(result.missingSkills) = Len(Effective)

(* C2: when the effective required-skill set is non-empty and the skill score
   is below 0.20, experience counts as 0 in the weighted sum and the returned
   matchScore is at most 0.20, whatever the coverage and the years are.
   Holds of info.tsx; nlp-engine.ts has no such override.  *)
C2_Override ==
    (Returned /\ Fires) =>
        /\ locals.experienceScore = DZero
        /\ result.experienceScore = DZero
        /\ locals.matchScore =
               DMin(DAdd(DMul(locals.coverageScore, DivInts(30, 100)),
                         DMul(locals.skillMatch, DivInts(50, 100))), D02)
        /\ DGe(D02, result.matchScore)

(* C3: the effective required-skill set is extractSkills(jobDescription) when
   the declared list is empty and the declared list otherwise; the skill
   score, matchedSkills, missingSkills and the override test are all taken
   from it.  Holds of info.tsx; nlp-engine.ts uses the declared list only.  *)
C3_EffectiveSet ==
    Returned =>
        /\ result.matchedSkills = SelectSeq(Effective, InResume)
        /\ result.missingSkills = SelectSeq(Effective, LAMBDA skill : ~InResume(skill))
        /\ locals.skillMatch = DOfFrac(ExactSkill)
        /\ OverrideApplied <=> Fires

(* C4: when the effective required-skill set is empty, the skill score is 0,
   matchedSkills and missingSkills are empty, and nothing was divided by 0.
   Holds of info.tsx; nlp-engine.ts scores the empty set 1.  *)
C4_EmptyEffective ==
    (Returned /\ Effective = <<>>) =>
        /\ locals.skillMatch = DZero
        /\ result.skillMatch = DZero
        /\ result.matchedSkills = <<>>
        /\ result.missingSkills = <<>>

(* C5, as claimed: the returned skillMatch is 1.0 exactly when every effective
   required skill is, case-insensitively, in resumeSkills.  *)
C5_OneIffAllPresent_Claimed ==
    Returned => (result.skillMatch = DOne <=> AllPresent)

(* C5, amended: when the list the skill score is taken over is not empty (the
   effective required-skill set in info.tsx, the declared list in
   nlp-engine.ts), the unrounded skill score is 1 exactly when every one of
   its skills is, case-insensitively, in resumeSkills, and so is the returned
   skillMatch when the list has fewer than 200 entries.  *)
C5_OneIffAllPresent ==
    (/\ Returned
     /\ \/ callee = "info.tsx" /\ Effective # <<>>
        \/ callee = "nlp-engine.ts" /\ Declared # <<>>) =>
        /\ locals.skillMatch = DOne <=> AllPresent
        /\ Len(Effective) < 200 => (result.skillMatch = DOne <=> AllPresent)

C5_Witness ==
    /\ Returned
    /\ callee = "info.tsx"
    /\ Declared = <<>>
    /\ Len(Effective) > 1
    /\ result.skillMatch = DOne
    /\ \E i \in DOMAIN Effective : ~includes(resumeSkills, Effective[i])

(* C6: calculateMatch never throws on absent optional data and returns a
   complete MatchResult.  *)
C6_NeverThrows ==
    /\ pc # "threw"
    /\ Returned =>
           DOMAIN result = {"matchScore", "textSimilarity", "skillMatch", "experienceScore",
                            "matchedSkills", "missingSkills", "matchedKeywords", "explanation"}

(* C7: when the override does not fire, the returned matchScore is
   0.30 coverage + 0.50 skillMatch + 0.20 experience, of the unrounded
   sub-scores of the call, rounded half-up to 2 decimals.  *)
C7_WeightedSumHalfUp ==
    (Returned /\ ~OverrideApplied) =>
        result.matchScore = DivInts(HalfUp(FracMul(Frac(100, 1), ExactComposite)), 100)

(* C8: for year figures >= 0, the four returned scores lie in [0,1] and are
   multiples of 0.01.  *)
C8_ScoresAreHundredths ==
    (Returned /\ resumeYearsExp >= 0 /\ requiredYearsExp >= 0) =>
        /\ IsHundredth(result.matchScore)
        /\ IsHundredth(result.textSimilarity)
        /\ IsHundredth(result.skillMatch)
        /\ IsHundredth(result.experienceScore)

C8_Witness ==
    /\ Returned
    /\ resumeYearsExp >= 0
    /\ requiredYearsExp >= 0
    /\ ~IsHundredth(locals.coverageScore)
    /\ ~IsHundredth(locals.matchScore)
    /\ DLt(DZero, result.matchScore)
    /\ DLt(result.matchScore, DOne)

(* C9: calculateExperienceScore returns 1.0 if requiredYears <= 0, else 1.0
   if resumeYears >= requiredYears, else 0.8 if resumeYears >= half of
   requiredYears, else 0.5 if resumeYears >= 1, else 0.2; so (5,5) gives 1.0,
   (2.5,5) 0.8, (1,10) 0.5, (0,10) 0.2 and (0,0) 1.0.  *)
C9_ExperienceBands ==
    Returned =>
        LET r == resumeYearsExp
            q == requiredYearsExp
        IN  /\ q <= 0 => result = DOne
            /\ (q > 0 /\ r >= q) => result = DOne
            /\ (q > 0 /\ r < q /\ 2 * r >= q) => result = D08
            /\ (q > 0 /\ 2 * r < q /\ r >= Years(1)) => result = D05
            /\ (q > 0 /\ 2 * r < q /\ r < Years(1)) => result = D02
            /\ (r = Years(5) /\ q = Years(5)) => result = DOne
            /\ (r = 5 /\ q = Years(5)) => result = D08
            /\ (r = Years(1) /\ q = Years(10)) => result = D05
            /\ (r = 0 /\ q = Years(10)) => result = D02
            /\ (r = 0 /\ q = 0) => result = DOne

C9_Witness ==
    /\ Returned
    /\ resumeYearsExp = 5
    /\ requiredYearsExp = Years(5)
    /\ result = D08

(* C10: calculateCoverageScore is the number of distinct job tokens that occur
   among the resume tokens over the number of distinct job tokens, and 0 for
   an empty job document; repeating a token changes nothing.  *)
C10_Coverage ==
    Returned =>
        LET J == Range(jobWords)
            R == Range(resumeWords)
        IN  result = IF jobWords = <<>> THEN DZero
                     ELSE DivInts(Cardinality(J \cap R), Cardinality(J))

C10_Witness ==
    /\ Returned
    /\ Len(jobWords) > Cardinality(Range(jobWords))
    /\ Len(resumeWords) > Cardinality(Range(resumeWords))
    /\ result = D05

(* C11: coverage is asymmetric: tokens added to the resume document that do
   not occur in the job document leave the coverage score as it was, and no
   added tokens lower it.  *)
C11_Asymmetric ==
    pc = "returned again" =>
        /\ Range(locals.added) \cap Range(jobWords) = {} => result = locals.before
        /\ DGe(result, locals.before)

C11_Witness ==
    /\ pc = "returned again"
    /\ Range(locals.added) \cap Range(jobWords) = {}
    /\ Len(resumeWords) > Len(locals.added)
    /\ result = locals.before
    /\ DLt(DZero, result)
    /\ DLt(result, DOne)

C11_WitnessGain ==
    /\ pc = "returned again"
    /\ DLt(locals.before, result)

(* C12: matchedKeywords holds at most 10 tokens, none twice, each in both
   normalized documents: the first 10 (or all, if fewer) of the tokens common
   to both, in the order of their first occurrence in the job document.  *)
C12_MatchedKeywords ==
    Returned =>
        LET J == preprocessText(jobDescription)
            R == preprocessText(resumeText)
            K == result.matchedKeywords
            firsts == {p \in DOMAIN J : J[p] \in Range(R) /\ \A q \in 1..(p - 1) : J[q] # J[p]}
        IN  /\ Len(K) <= 10
            /\ \A i, j \in DOMAIN K : K[i] = K[j] => i = j
            /\ Range(K) \subseteq Range(J) \cap Range(R)
            /\ Len(K) = IF Cardinality(firsts) < 10 THEN Cardinality(firsts) ELSE 10
            /\ \A i \in DOMAIN K :
                   \E p \in firsts : /\ J[p] = K[i]
                                     /\ Cardinality({q \in firsts : q < p}) = i - 1

C12_Witness ==
    /\ Returned
    /\ callee = "info.tsx"
    /\ Len(result.matchedKeywords) = 10
    /\ Cardinality(Range(preprocessText(jobDescription))
                       \cap Range(preprocessText(resumeText))) > 10
    /\ Len(preprocessText(jobDescription)) > Cardinality(Range(preprocessText(jobDescription)))

\* the characters a token may hold once the text is in lower case
TokenChars == Range(LowerCase) \cup Digit \cup {"_", ".", "#", "+"}

\* the tokens occur in the text in this order, from position from on, each
\* with no token character next to it
RECURSIVE InOrder(_, _, _)
InOrder(tokens, text, from) ==
    \/ tokens = <<>>
    \/ /\ tokens # <<>>
       /\ \E p \in from..(Len(text) - Len(Head(tokens)) + 1) :
              /\ SubSeq(text, p, p + Len(Head(tokens)) - 1) = Head(tokens)
              /\ p > 1 => text[p - 1] \notin TokenChars
              /\ p + Len(Head(tokens)) <= Len(text) => text[p + Len(Head(tokens))] \notin TokenChars
              /\ InOrder(Tail(tokens), text, p + Len(Head(tokens)))

(* C13: every token preprocessText returns is in lower case, has at least 3
   characters, is no stop word and holds only word characters, '.', '#' and
   '+'; the tokens are in the order in which they occur in the text.  *)
C13_Tokens ==
    Returned =>
        /\ \A i \in DOMAIN result :
               /\ Range(result[i]) \cap Range(UpperCase) = {}
               /\ Len(result[i]) >= 3
               /\ result[i] \notin stopWords
               /\ Range(result[i]) \subseteq WordChars \cup {".", "#", "+"}
        /\ InOrder(result, toLowerCase(resumeText), 1)

C13_Witness ==
    /\ Returned
    /\ Len(result) = 2
    /\ includes(resumeText, ",")
    /\ Range(resumeText) \cap Range(UpperCase) # {}
    /\ \E i \in DOMAIN result : includes(result[i], "+")
    /\ \E i \in DOMAIN result : includes(result[i], ".")

(* C14: preprocessText is idempotent: its tokens joined by single blanks and
   handed to it again come back as the same token sequence.  *)
C14_Idempotent ==
    pc = "returned again" => result = locals.first

C14_Witness ==
    /\ pc = "returned again"
    /\ Len(result) = 2
    /\ resumeText # locals.text
    /\ Len(resumeText) < Len(locals.text)
    /\ result = locals.first

\* the entry stands in the text at position p with no word character right
\* before it and none right after it
WholeAt(entry, text, p) ==
    /\ p + Len(entry) - 1 <= Len(text)
    /\ SubSeq(text, p, p + Len(entry) - 1) = entry
    /\ p > 1 => ~IsWordChar(text[p - 1])
    /\ p + Len(entry) <= Len(text) => ~IsWordChar(text[p + Len(entry)])

OccursWhole(entry, text) == \E p \in DOMAIN text : WholeAt(entry, text, p)

ReactNative == <<"R","e","a","c","t"," ","N","a","t","i","v","e">>

(* C15: extractSkills returns a lexicon entry exactly when the entry, in lower
   case, occurs in the text, in lower case, with no word character right
   before it and none right after it; also for entries that end in a
   non-word character, such as 'C++' and 'C#'.  *)
C15_WholeToken ==
    (Returned /\ jobDescription # UndefinedText) =>
        \A i \in DOMAIN SKILL_DATABASE :
            includes(result, SKILL_DATABASE[i])
                <=> OccursWhole(toLowerCase(SKILL_DATABASE[i]), toLowerCase(jobDescription))

(* C16: when 'React' occurs in the text only inside the phrase 'React Native',
   extractSkills returns 'React Native' and not 'React'; when 'React' also
   stands alone somewhere in the text, it returns both.  *)
C16_ReactNative ==
    LET text == toLowerCase(jobDescription)
        inPhrase == {p \in DOMAIN text : WholeAt(toLowerCase(ReactNative), text, p)}
        alone == {p \in DOMAIN text : WholeAt(toLowerCase(React), text, p)} \ inPhrase
    IN  (Returned /\ jobDescription # UndefinedText /\ inPhrase # {}) =>
            /\ includes(result, ReactNative)
            /\ includes(result, React) <=> alone # {}

(* C17: no two entries of SKILL_DATABASE are equal when case is ignored, and
   the list extractSkills returns names no skill twice.  *)
C17_NoDuplicates ==
    /\ \A i, j \in DOMAIN SKILL_DATABASE :
           toLowerCase(SKILL_DATABASE[i]) = toLowerCase(SKILL_DATABASE[j]) => i = j
    /\ Returned => \A i, j \in DOMAIN result : result[i] = result[j] => i = j

\* the place of the job with this id in the list received
PlaceOf(id) == CHOOSE i \in DOMAIN jobs : jobs[i].id = id

\* the fields a job came with
JobOf(match) == [f \in {"id", "description", "requiredSkills", "requiredYearsExp"} |-> match[f]]

\* the list presented with the fields of runMatchingAlgorithm only
WithoutPath(list) ==
    [i \in DOMAIN list |-> [f \in DOMAIN list[i] \ {"resumePath"} |-> list[i][f]]]

(* C18: the list presented is a permutation of the jobs received, sorted by
   descending matchScore, jobs of equal matchScore in the order received; a
   second run on the same jobs and resume presents the same order.  *)
C18_SortedStable ==
    (pc = "returned" /\ locals.runs > 0) =>
        /\ Len(jobMatches) = Len(jobs)
        /\ \A i \in DOMAIN jobs : \E j \in DOMAIN jobMatches : JobOf(jobMatches[j]) = jobs[i]
        /\ \A i, j \in DOMAIN jobMatches :
               i < j => /\ DGe(jobMatches[i].matchScore, jobMatches[j].matchScore)
                        /\ jobMatches[i].matchScore = jobMatches[j].matchScore
                               => PlaceOf(jobMatches[i].id) < PlaceOf(jobMatches[j].id)
        /\ locals.runs > 1 => WithoutPath(jobMatches) = WithoutPath(locals.previous)

C18_Witness ==
    /\ pc = "returned"
    /\ locals.runs = 2
    /\ Len(jobMatches) = 3
    /\ jobMatches[1].id = 3
    /\ jobMatches[2].matchScore = jobMatches[3].matchScore
    /\ jobMatches[2].requiredSkills # jobMatches[3].requiredSkills
    /\ jobMatches = locals.previous

(* C19: calculateMatch is deterministic and keeps no memory between calls:
   two calls with equal arguments give equal results (scores, lists and
   explanation) or both throw, whatever calls were made before or between
   them.  *)
C19_Deterministic ==
    \A i, j \in DOMAIN calls :
        calls[i].args = calls[j].args =>
            /\ calls[i].threw = calls[j].threw
            /\ calls[i].result = calls[j].result

C19_Witness ==
    /\ pc = "returned"
    /\ Len(calls) = 3
    /\ calls[1].args = calls[3].args
    /\ calls[2].args # calls[1].args
    /\ calls[2].args[1] = calls[1].args[1]
    /\ calls[2].result # calls[1].result
    /\ calls[3].result = calls[1].result

(* C20: the explanation of calculateMatch of info.tsx holds the override
   notice (the skill-match percentage, then the statement that experience was
   ignored due to skill mismatch), in front of the rest of the text, exactly
   when the override fired: the effective required-skill set is not empty and
   the skill score is below 0.20.  *)
C20_OverrideNotice ==
    (Returned /\ callee = "info.tsx") =>
        LET e == result.explanation
            ignored == {i \in DOMAIN e : e[i].text = "Experience ignored due to skill mismatch"}
            low == {i \in DOMAIN e : e[i].text = "Low skill match"}
        IN  /\ Fires => /\ low = {1}
                        /\ ignored = {2}
                        /\ e[1].pct = <<HalfUp(FracMul(Frac(100, 1), ExactSkill))>>
                        /\ Len(e) = 5
                        /\ e[3].text = "Overall match"
            /\ ~Fires => /\ low = {}
                         /\ ignored = {}
                         /\ Len(e) = 3
                         /\ e[1].text = "Overall match"

C20_Witness ==
    /\ Returned
    /\ callee = "info.tsx"
    /\ Fires
    /\ Len(Effective) > 5
    /\ PresentCount > 0
    /\ result.explanation[1].pct # <<0>>
    /\ result.explanation[2].text = "Experience ignored due to skill mismatch"

C20_WitnessScenario ==
    /\ Returned
    /\ callee = "info.tsx"
    /\ requiredSkills = <<Python, AWS, Docker>>
    /\ resumeSkills = <<Excel>>
    /\ DGe(D02, result.matchScore)
    /\ result.explanation[1] = Sentence("Low skill match", <<0>>)
    /\ result.explanation[2].text = "Experience ignored due to skill mismatch"

(* C21, as claimed: the explanation starts with "Overall match: p%", where p
   is 100 times the final composite, rounded to an integer, and p / 100 is the
   returned matchScore.  *)
C21_StartsWithOverall_Claimed ==
    (Returned /\ callee = "info.tsx") =>
        /\ result.explanation[1].text = "Overall match"
        /\ result.explanation[1].pct = <<MathRound(DMul(locals.matchScore, D100))>>
        /\ result.matchScore = DivInts(result.explanation[1].pct[1], 100)

(* C21, amended: the explanation of info.tsx has exactly one sentence
   "Overall match: p%": its first sentence when the override did not fire,
   and its third, behind the two sentences of the override notice, when it
   did.  p is Math.round of 100 times the final composite (after any cap) as
   computed, a whole number from 0 to 100, and p / 100 is the returned
   matchScore.  *)
C21_OverallMatch ==
    (Returned /\ callee = "info.tsx") =>
        \E at \in {IF Fires THEN 3 ELSE 1} :
            /\ {i \in DOMAIN result.explanation : result.explanation[i].text = "Overall match"} = {at}
            /\ result.explanation[at].pct = <<MathRound(DMul(locals.matchScore, D100))>>
            /\ result.explanation[at].pct[1] \in 0..100
            /\ result.matchScore = DivInts(result.explanation[at].pct[1], 100)

\* the override fired: the sentence is the third, and prints 10% for 10 of 51
C21_Witness ==
    /\ Returned
    /\ callee = "info.tsx"
    /\ Fires
    /\ Len(Effective) = 51
    /\ result.explanation[3] = Sentence("Overall match", <<10>>)
    /\ result.matchScore = DivInts(10, 100)

\* no override: the sentence is the first, and differs from the skill percentage
C21_WitnessFirst ==
    /\ Returned
    /\ callee = "info.tsx"
    /\ ~Fires
    /\ result.explanation[1].text = "Overall match"
    /\ result.explanation[1].pct # result.explanation[2].pct
    /\ result.explanation[1].pct # <<0>>

\* the sentences that are a skill clause, and those that are an experience clause
StrongClauses == {"Strong skill match", "Strong skill match with of required skills"}
SkillClauses == StrongClauses \cup {"Good skill match", "Partial skill match"}
ExperienceClauses ==
    {"Experience requirement met", "Experience considered", "Experience mismatch or ignored",
     "Close to experience requirement", "Below experience requirement"}
\* the places of the explanation e at which a sentence of the set stands
PlacesOf(e, texts) == {i \in DOMAIN e : e[i].text \in texts}

(* C22: the explanation has exactly one skill clause and, behind it, exactly
   one experience clause, chosen by bands: the skill clause is "strong" for a
   skill score >= 0.8, "good" from 0.5, else "partial"; the experience clause
   is "requirement met" for an experience score, as used in the sum, >= 0.8,
   "considered" for one above 0 and below 0.8, "mismatch or ignored" for 0.
   Holds of info.tsx; nlp-engine.ts says "Close to experience requirement"
   from 0.5 and "Below experience requirement" under it.  *)
C22_Clauses ==
    Returned =>
        \E e \in {result.explanation} :
            /\ Cardinality(PlacesOf(e, SkillClauses)) = 1
            /\ Cardinality(PlacesOf(e, ExperienceClauses)) = 1
            /\ \A i \in PlacesOf(e, SkillClauses), j \in PlacesOf(e, ExperienceClauses) :
                   /\ i < j
                   /\ e[i].text \in
                          IF DGe(locals.skillMatch, D08) THEN StrongClauses
                          ELSE IF DGe(locals.skillMatch, D05) THEN {"Good skill match"}
                          ELSE {"Partial skill match"}
                   /\ e[j].text =
                          IF DGe(locals.experienceScore, D08) THEN "Experience requirement met"
                          ELSE IF DLt(DZero, locals.experienceScore) THEN "Experience considered"
                          ELSE "Experience mismatch or ignored"

\* the same of the calls of info.tsx alone
C22_ClausesOfInfo ==
    callee = "info.tsx" => C22_Clauses

(* C23: for a non-empty effective required set, the unrounded skill score of
   info.tsx is the number of required entries that are, case-insensitively,
   in resumeSkills over the number of required entries; matchedSkills lists
   exactly the entries present and missingSkills exactly the absent ones,
   each in the order and the spelling of the required list.  Required
   [Python, React, SQL] with resume [Python, React] gives skillMatch 0.67,
   matched [Python, React], missing [SQL] and no override.  *)
C23_SkillScoreAndLists ==
    (Returned /\ callee = "info.tsx" /\ Effective # <<>>) =>
        /\ locals.skillMatch = DivInts(PresentCount, Len(Effective))
        /\ result.matchedSkills = SelectSeq(Effective, InResume)
        /\ result.missingSkills = SelectSeq(Effective, LAMBDA skill : ~InResume(skill))
        /\ (Effective = <<Python, React, SQL>> /\ resumeSkills = <<Python, React>>) =>
               /\ result.skillMatch = DivInts(67, 100)
               /\ result.matchedSkills = <<Python, React>>
               /\ result.missingSkills = <<SQL>>
               /\ ~locals.penaltyApplied

\* the scenario of the claim
C23_Witness ==
    /\ Returned
    /\ callee = "info.tsx"
    /\ requiredSkills = <<Python, React, SQL>>
    /\ resumeSkills = <<Python, React>>
    /\ result.skillMatch = DivInts(67, 100)
    /\ result.missingSkills = <<SQL>>

\* the resume spells a skill otherwise than the required list, which has it twice
C23_WitnessSpelling ==
    /\ Returned
    /\ callee = "info.tsx"
    /\ resumeSkills = <<Excel, python>>
    /\ requiredSkills = <<Python, Python>>
    /\ result.matchedSkills = <<Python, Python>>
    /\ locals.skillMatch = DOne

\* the set was taken from the job description
C23_WitnessExtracted ==
    /\ Returned
    /\ callee = "info.tsx"
    /\ Declared = <<>>
    /\ Len(result.matchedSkills) = 1
    /\ Len(result.missingSkills) = 1

(* C24: the override of info.tsx is decided on the unrounded skill score,
   once the three sub-scores are computed and before anything is rounded: it
   fires exactly when the effective required set is non-empty and 5 times the
   number of matched entries is less than the number of required entries.
   So 10 of 51 required skills, returned as skillMatch 0.20, is still capped
   at 0.20 and has its experience zeroed.  *)
C24_DecidedUnrounded ==
    (Returned /\ callee = "info.tsx") =>
        /\ locals.penaltyApplied <=> (Effective # <<>> /\ 5 * PresentCount < Len(Effective))
        /\ locals.penaltyApplied =>
               /\ locals.experienceScore = DZero
               /\ result.experienceScore = DZero
               /\ DGe(scoreCap, locals.matchScore)
               /\ DGe(scoreCap, result.matchScore)
        /\ ~locals.penaltyApplied =>
               /\ locals.experienceScore = DOfFrac(ExactExperience)
               /\ locals.matchScore = weightedScore(locals.coverageScore, locals.skillMatch,
                                                   locals.experienceScore)
        /\ (Len(Effective) = 51 /\ PresentCount = 10) =>
               /\ result.skillMatch = DivInts(20, 100)
               /\ locals.penaltyApplied

\* 10 of 51: the returned skillMatch is 0.20 and the override fired
C24_Witness ==
    /\ Returned
    /\ callee = "info.tsx"
    /\ Len(Effective) = 51
    /\ PresentCount = 10
    /\ result.skillMatch = DivInts(20, 100)
    /\ locals.penaltyApplied
    /\ result.experienceScore = DZero
    /\ DGe(scoreCap, result.matchScore)

\* 1 of 5: the returned skillMatch is 0.20 and the override did not fire
C24_WitnessAtThreshold ==
    /\ Returned
    /\ callee = "info.tsx"
    /\ Len(Effective) = 5
    /\ PresentCount = 1
    /\ result.skillMatch = DivInts(20, 100)
    /\ ~locals.penaltyApplied
    /\ result.experienceScore = DOne

(* C29: the experienceScore returned by info.tsx is 0 exactly when the
   override fired, and is one of 0.2, 0.5, 0.8 and 1.0 otherwise; hence the
   clause "Experience mismatch or ignored." is in the explanation if and only
   if the override notice is.  *)
C29_ZeroIffOverride ==
    (Returned /\ callee = "info.tsx") =>
        /\ result.experienceScore = DZero <=> Fires
        /\ ~Fires => result.experienceScore \in {D02, D05, D08, DOne}
        /\ PlacesOf(result.explanation, {"Experience mismatch or ignored"}) # {}
               <=> PlacesOf(result.explanation, {"Low skill match", "Experience ignored due to skill mismatch"}) # {}
        /\ PlacesOf(result.explanation, {"Experience mismatch or ignored"}) # {} <=> Fires

\* the override fired on a candidate with the lowest experience score
C29_Witness ==
    /\ Returned
    /\ callee = "info.tsx"
    /\ Fires
    /\ DOfFrac(ExactExperience) = D02
    /\ result.experienceScore = DZero
    /\ result.explanation[5].text = "Experience mismatch or ignored"

\* no override, and the lowest experience score: the clause is "considered"
C29_WitnessLowest ==
    /\ Returned
    /\ callee = "info.tsx"
    /\ ~Fires
    /\ result.experienceScore = D02
    /\ result.explanation[3].text = "Experience considered"

C29_WitnessHalf ==
    Returned /\ callee = "info.tsx" /\ ~Fires /\ result.experienceScore = D05

C29_WitnessMost ==
    Returned /\ callee = "info.tsx" /\ ~Fires /\ result.experienceScore = D08

-----------------------------------------------------------------------------
(* extractSkills over lexicons other than the one the source ships: every
   list of up to MaxLexicon entries, in every order, repetitions included *)

LexiconEntries == {
    React, ReactNative, <<"J","a","v","a">>, <<"J","a","v","a","S","c","r","i","p","t">>,
    <<"C">>, <<"C","+","+">> }

Lexicons == SeqUpTo(LexiconEntries, MaxLexicon)

LexiconTexts == {
    UndefinedText,
    <<>>,
    Join(<<React, <<"N","a","t","i","v","e">>, <<"d","e","v","e","l","o","p","e","r">>>>),
    Join(<<<<"r","e","a","c","t","i","v","e">>, <<"J","a","v","a">>>>),
    Join(<<<<"J","a","v","a","S","c","r","i","p","t">>, <<"c","+","+","1","1">>>>),
    Join(<<<<"C">>, React, <<"J","a","v","a","S","c","r","i","p","t">>, <<"J","a","v","a">>>>) }

InitLexicon ==
    /\ pc = "call"
    /\ callee = "none"
    /\ locals = <<>>
    /\ result = <<>>
    /\ jobs = <<>>
    /\ jobMatches = <<>>
    /\ calls = <<>>
    /\ resumes = {}
    /\ requests = {}
    /\ lexicon \in Lexicons
    /\ jobDescription \in LexiconTexts
    /\ resumeText = <<>>
    /\ resumeSkills = <<>>
    /\ requiredSkills = <<>>
    /\ resumeYearsExp = 0
    /\ requiredYearsExp = 0
    /\ resumeWords = <<>>
    /\ jobWords = <<>>

ExtractSkillsOfLexicon ==
    /\ pc = "call"
    /\ pc' = "returned"
    /\ \E file \in {"info.tsx", "nlp-engine.ts"} : callee' = file
    /\ result' = extractSkillsOf(lexicon, jobDescription)
    /\ lexicon' = lexiconAfterExtractSkills(lexicon, jobDescription)
    /\ UNCHANGED <<resumeText, jobDescription, resumeSkills, requiredSkills,
                   resumeYearsExp, requiredYearsExp, resumeWords, jobWords, locals,
                   jobs, jobMatches, calls, resumes, requests>>

NextLexicon == ExtractSkillsOfLexicon

SpecLexicon == InitLexicon /\ [][NextLexicon]_vars

(* C25: the set extractSkills returns does not depend on the order in which
   the entries of the lexicon are scanned, nor on which other entries the
   lexicon has: an entry is returned exactly when it alone matches the text.
   A longer entry ('React Native') never hides a shorter one ('React'), nor a
   shorter one a longer one.  *)
C25_EntriesIndependent ==
    Returned =>
        /\ Range(result) =
               {e \in Range(lexicon) :
                    /\ jobDescription # UndefinedText
                    /\ RegexTest(toLowerCase(e), toLowerCase(jobDescription))}
        /\ Range(result) = {e \in Range(lexicon) : extractSkillsOf(<<e>>, jobDescription) = <<e>>}
        /\ Range(result) = Range(extractSkillsOf(Reverse(lexicon), jobDescription))

\* the lexicon has 'React' before 'React Native', and the text names the longer
C25_Witness ==
    /\ Returned
    /\ lexicon = <<React, <<"C">>, ReactNative>>
    /\ jobDescription = Join(<<React, <<"N","a","t","i","v","e">>, <<"d","e","v","e","l","o","p","e","r">>>>)
    /\ Range(result) = {React, ReactNative}

\* 'Java' is not found in 'JavaScript', whichever entry is scanned first
C25_WitnessShorter ==
    /\ Returned
    /\ lexicon = <<<<"J","a","v","a">>, <<"J","a","v","a","S","c","r","i","p","t">>>>
    /\ jobDescription = Join(<<<<"J","a","v","a","S","c","r","i","p","t">>, <<"c","+","+","1","1">>>>)
    /\ result = <<<<"J","a","v","a","S","c","r","i","p","t">>>>

-----------------------------------------------------------------------------
(* The three sub-scores of the two files, called on the same arguments.
   result is [info, engine]: what the function of info.tsx and the function
   of nlp-engine.ts return; locals names the function called *)

VariantSkillLists == SeqUpTo({Python, SQL, AWS}, MaxRequired) \cup {UndefinedList}
VariantResumeLists == SeqUpTo({python, Excel, <<"s","q","l">>}, MaxResumeSkills) \cup {UndefinedList}

InitVariants ==
    /\ NoCall
    /\ resumeText = <<>>
    /\ jobDescription = <<>>
    /\ \/ /\ resumeSkills \in VariantResumeLists
          /\ requiredSkills \in VariantSkillLists
          /\ resumeWords = <<>> /\ jobWords = <<>>
          /\ resumeYearsExp = 0 /\ requiredYearsExp = 0
       \/ /\ resumeSkills = <<>> /\ requiredSkills = <<>>
          /\ resumeWords \in SeqUpTo(Tokens, MaxTokens)
          /\ jobWords \in SeqUpTo(Tokens, MaxTokens)
          /\ resumeYearsExp = 0 /\ requiredYearsExp = 0
       \/ /\ resumeSkills = <<>> /\ requiredSkills = <<>>
          /\ resumeWords = <<>> /\ jobWords = <<>>
          /\ resumeYearsExp \in 0..MaxHalfYears \cup {UndefinedNumber}
          /\ requiredYearsExp \in (-2)..MaxHalfYears \cup {UndefinedNumber}

BothReturn(function, info, engine) ==
    /\ pc = "call"
    /\ pc' = "returned"
    /\ callee' = "both"
    /\ locals' = [function |-> function]
    /\ result' = [info |-> info, engine |-> engine]
    /\ UNCHANGED <<resumeText, jobDescription, resumeSkills, requiredSkills,
                   resumeYearsExp, requiredYearsExp, resumeWords, jobWords,
                   jobs, jobMatches, calls, lexicon, resumes, requests>>

BothCalculateSkillMatch ==
    BothReturn("calculateSkillMatch",
               calculateSkillMatch(resumeSkills, requiredSkills),
               nlpEngine_calculateSkillMatch(resumeSkills, requiredSkills))

BothCalculateCoverageScore ==
    BothReturn("calculateCoverageScore",
               calculateCoverageScore(resumeWords, jobWords),
               nlpEngine_calculateCoverageScore(resumeWords, jobWords))

BothCalculateExperienceScore ==
    BothReturn("calculateExperienceScore",
               calculateExperienceScore(resumeYearsExp, requiredYearsExp),
               nlpEngine_calculateExperienceScore(resumeYearsExp, requiredYearsExp))

NextVariants ==
    BothCalculateSkillMatch \/ BothCalculateCoverageScore \/ BothCalculateExperienceScore

SpecVariants == InitVariants /\ [][NextVariants]_vars

(* C26: nlp-engine.ts and its copy in info.tsx return the same skill score
   for every non-empty required list; for an empty required list they differ
   only in that info.tsx returns 0 and nlp-engine.ts 1; their coverage and
   experience sub-scores are equal on every input.  *)
C26_VariantsAgree ==
    Returned =>
        /\ (locals.function = "calculateSkillMatch" /\ requiredSkills # UndefinedList) =>
               /\ requiredSkills # <<>> => result.info = result.engine
               /\ requiredSkills = <<>> => (result.info = DZero /\ result.engine = DOne)
        /\ locals.function = "calculateCoverageScore" => result.info = result.engine
        /\ locals.function = "calculateExperienceScore" => result.info = result.engine

\* a required list of which half is in the resume, under another spelling
C26_Witness ==
    /\ Returned
    /\ locals.function = "calculateSkillMatch"
    /\ Len(requiredSkills) = 2
    /\ resumeSkills # UndefinedList
    /\ result.info = D05
    /\ result.engine = D05

C26_WitnessEmpty ==
    /\ Returned
    /\ locals.function = "calculateSkillMatch"
    /\ requiredSkills = <<>>
    /\ resumeSkills # <<>>
    /\ result = [info |-> DZero, engine |-> DOne]

C26_WitnessCoverage ==
    /\ Returned
    /\ locals.function = "calculateCoverageScore"
    /\ Len(jobWords) = 3
    /\ result = [info |-> D05, engine |-> D05]

C26_WitnessExperience ==
    /\ Returned
    /\ locals.function = "calculateExperienceScore"
    /\ result = [info |-> D08, engine |-> D08]

-----------------------------------------------------------------------------
(* What calls of extractSkills and calculateMatch do to the arrays they are
   given: SKILL_DATABASE, the array of the module, and the caller's
   resumeSkills and requiredSkills.  calls lists the functions called so far
   and locals holds the three arrays as they were before the last call *)

\* effectiveRequiredSkills refers to the caller's array until it is assigned
\* the array extractSkills returns; the code then only reads it (length,
\* map, filter), and reads resumeSkills with map
argumentsAfterCalculateMatch(rSkills, reqSkills) ==
    [resumeSkills |-> rSkills, requiredSkills |-> reqSkills]

\* SKILL_DATABASE once calculateMatch has returned or thrown: extractSkills
\* is called, before anything can throw, when no required skill is declared
lexiconAfterCalculateMatch(lex, reqSkills, jobText) ==
    IF reqSkills = UndefinedList \/ Len(reqSkills) = 0
    THEN lexiconAfterExtractSkills(lex, jobText)
    ELSE lex

InitFrame ==
    /\ NoCall
    /\ resumeWords = <<>>
    /\ jobWords = <<>>
    /\ resumeText \in ResumeTexts
    /\ jobDescription \in {<<>>, UndefinedText,
                            <<"P","y","t","h","o","n",","," ","R","e","a","c","t"," ","a","n","d"," ","S","Q","L">>,
                            Join(<<React, <<"N","a","t","i","v","e">>, <<"d","e","v","e","l","o","p","e","r">>>>)}
    /\ resumeSkills \in {<<python>>, <<React, Python>>, UndefinedList}
    /\ requiredSkills \in {<<>>, <<SQL, AWS, Python>>, UndefinedList}
    /\ resumeYearsExp = Years(5) /\ requiredYearsExp = Years(3)

ArraysNow == [lexicon |-> lexicon, resumeSkills |-> resumeSkills, requiredSkills |-> requiredSkills]

ExtractSkillsOnArrays ==
    /\ pc \in {"call", "returned", "threw"}
    /\ Len(calls) < MaxCalls
    /\ pc' = "returned"
    /\ callee' = "info.tsx"
    /\ calls' = Append(calls, "extractSkills")
    /\ locals' = ArraysNow
    /\ result' = extractSkillsOf(lexicon, jobDescription)
    /\ lexicon' = lexiconAfterExtractSkills(lexicon, jobDescription)
    /\ UNCHANGED <<resumeText, jobDescription, resumeSkills, requiredSkills,
                   resumeYearsExp, requiredYearsExp, resumeWords, jobWords,
                   jobs, jobMatches, resumes, requests>>

CalculateMatchOnArrays ==
    /\ pc \in {"call", "returned", "threw"}
    /\ Len(calls) < MaxCalls
    /\ \E out \in {calculateMatch(resumeText, jobDescription, resumeSkills,
                                   requiredSkills, resumeYearsExp, requiredYearsExp)} :
           /\ pc' = IF out.threw THEN "threw" ELSE "returned"
           /\ result' = out.result
    /\ callee' = "info.tsx"
    /\ calls' = Append(calls, "calculateMatch")
    /\ locals' = ArraysNow
    /\ lexicon' = lexiconAfterCalculateMatch(lexicon, requiredSkills, jobDescription)
    /\ resumeSkills' = argumentsAfterCalculateMatch(resumeSkills, requiredSkills).resumeSkills
    /\ requiredSkills' = argumentsAfterCalculateMatch(resumeSkills, requiredSkills).requiredSkills
    /\ UNCHANGED <<resumeText, jobDescription, resumeYearsExp, requiredYearsExp,
                   resumeWords, jobWords, jobs, jobMatches, resumes, requests>>

NextFrame == ExtractSkillsOnArrays \/ CalculateMatchOnArrays

SpecFrame == InitFrame /\ [][NextFrame]_vars

(* C27: calculateMatch and extractSkills leave SKILL_DATABASE (its entries
   and their order) and the caller's resumeSkills and requiredSkills as they
   were before the call; the sort by length is done on a copy.  *)
C27_ArraysUnchanged ==
    calls # <<>> =>
        /\ lexicon = locals.lexicon
        /\ lexicon = SKILL_DATABASE
        /\ resumeSkills = locals.resumeSkills
        /\ requiredSkills = locals.requiredSkills

\* calculateMatch extracted the required skills from the job description,
\* out of a lexicon that is not in order of length, and found some
C27_Witness ==
    /\ calls = <<"calculateMatch">>
    /\ pc = "returned"
    /\ requiredSkills = <<>>
    /\ Len(result.matchedSkills) + Len(result.missingSkills) = 3
    /\ SortByLength(lexicon) # lexicon

\* extractSkills returned skills in an order other than the lexicon's
C27_WitnessExtract ==
    /\ calls = <<"calculateMatch", "extractSkills">>
    /\ pc = "returned"
    /\ result = <<ReactNative, React>>
    /\ SortByLength(lexicon) # lexicon

-----------------------------------------------------------------------------
(* calculateMatch of info.tsx called for a resume, and again for the same
   resume with skills added, all other arguments the same.  After the second
   call locals holds the locals of both calls and the skills added *)

AddedSkills == {<<"s","q","l">>, Excel, <<"C","O","B","O","L">>}

InitMonotone ==
    /\ NoCall
    /\ resumeWords = <<>>
    /\ jobWords = <<>>
    /\ resumeText \in {<<>>, <<"p","y","t","h","o","n"," ","s","q","l">>}
    /\ jobDescription \in {<<>>, <<"P","y","t","h","o","n",","," ","R","e","a","c","t"," ","a","n","d"," ","S","Q","L">>}
    /\ resumeSkills \in {<<>>, <<python>>, <<Docker>>}
    /\ requiredSkills \in {<<>>, <<Python, SQL>>, <<Python, SQL, AWS, Docker, Excel, React>>}
    /\ \E y \in YearPairs : resumeYearsExp = y[1] /\ requiredYearsExp = y[2]

CalculateMatchWithAddedSkills ==
    /\ pc = "returned"
    /\ \E added \in SeqUpTo(AddedSkills, MaxAdded) \ {<<>>} :
           /\ resumeSkills' = resumeSkills \o added
           /\ \E out \in {calculateMatch(resumeText, jobDescription, resumeSkills \o added,
                                          requiredSkills, resumeYearsExp, requiredYearsExp)} :
                  /\ locals' = [before |-> locals, added |-> added, after |-> out.locals]
                  /\ result' = out.result
    /\ pc' = "returned again"
    /\ UNCHANGED <<resumeText, jobDescription, requiredSkills, resumeYearsExp,
                   requiredYearsExp, resumeWords, jobWords, callee,
                   jobs, jobMatches, calls, lexicon, resumes, requests>>

NextMonotone == CalculateMatch \/ CalculateMatchWithAddedSkills

SpecMonotone == InitMonotone /\ [][NextMonotone]_vars

(* C28: with the job inputs, both texts and both year figures the same and a
   non-empty effective required set, adding skills to resumeSkills never
   lowers the unrounded composite score, also when the added skill takes the
   candidate out of the override case (skillMatch < 0.20).  *)
C28_MoreSkillsNeverLower ==
    (pc = "returned again" /\ Effective # <<>>) =>
        /\ DGe(locals.after.matchScore, locals.before.matchScore)
        /\ DGe(locals.after.skillMatch, locals.before.skillMatch)
        /\ (locals.before.penaltyApplied /\ ~locals.after.penaltyApplied) =>
               DLt(locals.before.matchScore, locals.after.matchScore)

\* the added skill took the candidate out of the override case: 1 of 6, then 2 of 6
C28_Witness ==
    /\ pc = "returned again"
    /\ Len(Effective) = 6
    /\ locals.before.penaltyApplied
    /\ DLt(DZero, locals.before.skillMatch)
    /\ ~locals.after.penaltyApplied
    /\ DLt(locals.before.matchScore, locals.after.matchScore)

\* the candidate stayed in the override case, with a higher score
C28_WitnessWithin ==
    /\ pc = "returned again"
    /\ locals.before.penaltyApplied
    /\ locals.after.penaltyApplied
    /\ DLt(locals.before.matchScore, locals.after.matchScore)

\* the added skills are not required: the score is the same
C28_WitnessSame ==
    /\ pc = "returned again"
    /\ Effective # <<>>
    /\ locals.added = <<<<"C","O","B","O","L">>>>
    /\ locals.after.matchScore = locals.before.matchScore
    /\ DLt(DZero, locals.after.skillMatch)

-----------------------------------------------------------------------------
(* The server: POST /resumes and PUT /resumes/:id/activate.  Each handler
   awaits two statements on the table resumes, one after the other; each
   statement is one request to the database, and statements of requests
   handled at the same time interleave.  resumes holds the rows (id, user_id,
   is_active); requests holds every request received, with the statement it
   is to issue next; locals notes whether two requests were ever in flight
   together and whether a statement whose error is not looked at failed *)

Users == {"applicant", "other"}

\* who sends a request, and whether its body is complete: the applicant, the
\* applicant with a field missing, another user, and a caller with no session
Senders == {<<"applicant", TRUE>>, <<"applicant", FALSE>>, <<"other", TRUE>>, <<"none", TRUE>>}

\* who asks for which resume to be activated: the applicant for an active row,
\* for an inactive row and for a row of another user, and a caller with no session
Activations == {<<"applicant", 1>>, <<"applicant", 2>>, <<"applicant", 3>>, <<"none", 1>>}

Row(id, user, active) == [id |-> id, user_id |-> user, is_active |-> active]

InFlight == {r \in requests : r.pc # "done"}

InitServer ==
    /\ pc = "server"
    /\ callee = "index.ts"
    /\ locals = [overlapped |-> FALSE, unseenError |-> FALSE]
    /\ result = <<>>
    /\ jobs = <<>>
    /\ jobMatches = <<>>
    /\ calls = <<>>
    /\ lexicon = SKILL_DATABASE
    /\ resumeText = <<>>
    /\ jobDescription = <<>>
    /\ resumeSkills = <<>>
    /\ requiredSkills = <<>>
    /\ resumeYearsExp = 0
    /\ requiredYearsExp = 0
    /\ resumeWords = <<>>
    /\ jobWords = <<>>
    /\ requests = {}
    /\ resumes \in {{},
                     {Row(1, "applicant", TRUE), Row(2, "applicant", FALSE), Row(3, "other", TRUE)}}

ServerUnchanged ==
    UNCHANGED <<resumeText, jobDescription, resumeSkills, requiredSkills,
                resumeYearsExp, requiredYearsExp, resumeWords, jobWords,
                pc, callee, result, jobs, jobMatches, calls, lexicon>>

\* a request arrives; verifyAuth gives the user, or none
Receive(request) ==
    /\ Cardinality(requests) < MaxRequests
    /\ requests' = requests \cup {[n |-> Cardinality(requests) + 1] @@ request}
    /\ locals' = [locals EXCEPT !.overlapped = @ \/ (InFlight # {} /\ request.pc # "done")]
    /\ UNCHANGED resumes
    /\ ServerUnchanged

\* app.post('/resumes'), up to the first statement: 401 without a user, 400
\* when filename, filePath or parsedData is missing
ReceivePost ==
    \E sender \in Senders :
        Receive([kind |-> "post", user |-> sender[1], id |-> 0,
                 pc |-> IF sender[1] = "none" \/ ~sender[2] THEN "done" ELSE "deactivate",
                 status |-> IF sender[1] = "none" THEN 401 ELSE IF ~sender[2] THEN 400 ELSE 0])

\* app.put('/resumes/:id/activate'), up to the first statement
ReceiveActivate ==
    \E activation \in Activations :
        Receive([kind |-> "activate", user |-> activation[1], id |-> activation[2],
                 pc |-> IF activation[1] = "none" THEN "done" ELSE "deactivate",
                 status |-> IF activation[1] = "none" THEN 401 ELSE 0])

Step(r, next, status) ==
    requests' = (requests \ {r}) \cup {[r EXCEPT !.pc = next, !.status = status]}

\* await supabase.from('resumes').update({ is_active: false }).eq('user_id', user.id):
\* the error the statement may return is not looked at
DeactivateAll ==
    \E r \in requests, failed \in BOOLEAN :
        /\ r.pc = "deactivate"
        /\ resumes' = IF failed THEN resumes
                      ELSE {IF row.user_id = r.user THEN [row EXCEPT !.is_active = FALSE] ELSE row :
                                row \in resumes}
        /\ Step(r, IF r.kind = "post" THEN "insert" ELSE "activate", 0)
        /\ locals' = [locals EXCEPT !.unseenError = @ \/ failed]
        /\ ServerUnchanged

\* insert({ user_id: user.id, ..., is_active: true }).select().single();
\* if (error) throw error
InsertResume ==
    \E r \in requests, failed \in BOOLEAN :
        /\ r.pc = "insert"
        /\ resumes' = IF failed THEN resumes
                      ELSE resumes \cup {Row(1 + Cardinality(resumes), r.user, TRUE)}
        /\ Step(r, "done", IF failed THEN 500 ELSE 200)
        /\ UNCHANGED locals
        /\ ServerUnchanged

\* update({ is_active: true }).eq('id', resumeId).eq('user_id', user.id);
\* if (error) throw error
ActivateSelected ==
    \E r \in requests, failed \in BOOLEAN :
        /\ r.pc = "activate"
        /\ resumes' = IF failed THEN resumes
                      ELSE {IF row.id = r.id /\ row.user_id = r.user
                            THEN [row EXCEPT !.is_active = TRUE] ELSE row : row \in resumes}
        /\ Step(r, "done", IF failed THEN 500 ELSE 200)
        /\ UNCHANGED locals
        /\ ServerUnchanged

NextServer == ReceivePost \/ ReceiveActivate \/ DeactivateAll \/ InsertResume \/ ActivateSelected

SpecServer == InitServer /\ [][NextServer]_vars

\* the rows of a user that are active
ActiveRows(user) == {row \in resumes : row.user_id = user /\ row.is_active}

(* C30: once any interleaving of POST /resumes and PUT /resumes/:id/activate
   requests of one user has completed, at most one of the user's resume rows
   has is_active = true.  Fails: the two statements of a handler are not one
   transaction, so another request's activation can fall between them.  *)
C30_AtMostOneActive ==
    InFlight = {} => \A user \in Users : Cardinality(ActiveRows(user)) <= 1

\* the same of requests handled one at a time, every statement succeeding or
\* its error being looked at: this holds
C30_OneAtATime ==
    (InFlight = {} /\ ~locals.overlapped /\ ~locals.unseenError) =>
        \A user \in Users : Cardinality(ActiveRows(user)) <= 1

\* the same when no statement fails: this fails, by the interleaving alone
C30_NoStatementFails ==
    (InFlight = {} /\ ~locals.unseenError /\ \A r \in requests : r.status = 200) =>
        \A user \in Users : Cardinality(ActiveRows(user)) <= 1

====
